---- MODULE Spec2Model ----
(***************************************************************************)
(* Proof-of-work difficulty retargeting of dsvd (blockchain/difficulty.go) *)
(* with the difficulty subset of the network parameters (chaincfg).        *)
(*                                                                         *)
(* Numbers.  A math/big integer is a record [neg, mag]: mag is the         *)
(* big-endian byte string of the magnitude without leading zero bytes (the *)
(* value of big.Int.Bytes()), neg the sign.  A 32-bit compact value is a   *)
(* record [hi, lo]: hi is the byte in bits 31..24, lo the 24 bits below.   *)
(***************************************************************************)
EXTENDS Integers, Sequences, FiniteSets, TLC

VARIABLES
    params,     \* the network parameters behind ChainCtx.ChainParams()
    base,       \* height of the oldest header the storage still links to
    spare,      \* how many headers less than MaxBlocks the storage holds
    chain,      \* headers base, base+1, ...: chain[i] is the parent of chain[i+1]
    call,       \* the last call of calcNextRequiredDifficulty: its inputs
    result,     \* ... and what it returned
    codecOp,    \* the codec calls made so far, "ready" before the first
    codecCompact, \* the compact value the first call took or returned
    codecBig,   \* the big integer the first call took or returned
    codecBack,  \* what the second call, undoing the first, returned
    codecAgain, \* what the third call, redoing the first, returned
    workIn,     \* the compact values CalcWork is to be called on, in order
    workOut,    \* what the calls of CalcWork made so far returned
    chainLock,  \* b.chainLock: the caller holding it, 0 when it is free
    pc,         \* where each caller of BlockChain.CalcNextRequiredDifficulty is
    registeredNets,       \* the package-level registries of chaincfg
    pubKeyHashAddrIDs,
    scriptHashAddrIDs,
    bech32SegwitPrefixes,
    bech32MwebPrefixes,
    hdPrivToPubKeyIDs,
    registered, \* the last call of Register: its argument and what it returned
    exponentIn, \* the fixed-point exponent ASERT is to split, an int64
    splitOut,   \* the shifts, frac, cubic sum and factor ASERT made of it
    callerBig,  \* a big integer a caller holds and passes to BigToCompact
    did         \* the last call of the package made: its inputs and result

chainVars == <<params, base, spare, chain, call, result>>
codecVars == <<codecOp, codecCompact, codecBig, codecBack, codecAgain>>
workVars == <<workIn, workOut>>
lockVars == <<chainLock, pc>>
registries == <<registeredNets, pubKeyHashAddrIDs, scriptHashAddrIDs,
                bech32SegwitPrefixes, bech32MwebPrefixes, hdPrivToPubKeyIDs>>
regVars == <<registries, registered>>
splitVars == <<exponentIn, splitOut>>
frameVars == <<callerBig, did>>

vars == <<chainVars, codecVars, workVars, lockVars, regVars, splitVars, frameVars>>

-----------------------------------------------------------------------------
(* Natural numbers and byte strings                                         *)

Pow2(k) == 2 ^ k

Min2(a, b) == IF a < b THEN a ELSE b

Zeros(k) == [i \in 1..k |-> 0]

\* the largest element of a non-empty set of numbers
Max(S) == CHOOSE x \in S : \A y \in S : y <= x

RECURSIVE Strip(_)
Strip(mag) == IF mag = <<>> THEN <<>>
              ELSE IF mag[1] = 0 THEN Strip(Tail(mag)) ELSE mag

RECURSIVE NatToMag(_)
NatToMag(n) == IF n = 0 THEN <<>> ELSE NatToMag(n \div 256) \o <<n % 256>>

RECURSIVE MagToNat(_)
MagToNat(mag) == IF mag = <<>> THEN 0
                 ELSE 256 * MagToNat(SubSeq(mag, 1, Len(mag) - 1)) + mag[Len(mag)]

\* -1, 0 or 1 as the magnitude a is below, equal to or above b
MagCmp(a, b) ==
    LET RECURSIVE Lex(_)
        Lex(i) == IF i > Len(a) THEN 0
                  ELSE IF a[i] < b[i] THEN -1
                  ELSE IF a[i] > b[i] THEN 1
                  ELSE Lex(i + 1)
    IN  IF Len(a) < Len(b) THEN -1
        ELSE IF Len(a) > Len(b) THEN 1
        ELSE Lex(1)

\* magnitude times a small natural number
MagMulSmall(mag, k) ==
    LET RECURSIVE F(_, _, _)
        F(i, carry, acc) ==
            IF i = 0 THEN NatToMag(carry) \o acc
            ELSE LET v == mag[i] * k + carry
                 IN  F(i - 1, v \div 256, <<v % 256>> \o acc)
    IN  IF k = 0 THEN <<>> ELSE F(Len(mag), 0, <<>>)

\* magnitude divided by a small positive number: quotient and remainder
MagDivSmall(mag, d) ==
    LET RECURSIVE F(_, _, _)
        F(i, rem, acc) ==
            IF i > Len(mag) THEN [q |-> Strip(acc), r |-> rem]
            ELSE LET v == rem * 256 + mag[i]
                 IN  F(i + 1, v % d, acc \o <<v \div d>>)
    IN  F(1, 0, <<>>)

\* magnitude plus one
MagInc(mag) ==
    LET n == Len(mag)
        notFull == {i \in 1..n : mag[i] # 255}
        j == IF notFull = {} THEN 0 ELSE Max(notFull)
    IN  IF j = 0 THEN <<1>> \o Zeros(n)
        ELSE [i \in 1..n |-> IF i < j THEN mag[i]
                             ELSE IF i = j THEN mag[i] + 1 ELSE 0]

\* magnitude minus one, for a non-zero magnitude
MagDec(mag) ==
    LET n == Len(mag)
        j == Max({i \in 1..n : mag[i] # 0})
    IN  Strip([i \in 1..n |-> IF i < j THEN mag[i]
                              ELSE IF i = j THEN mag[i] - 1 ELSE 255])

\* magnitude shifted right by s bits
MagRsh(mag, s) ==
    LET bytes == s \div 8
        bits  == s % 8
        kept  == IF bytes >= Len(mag) THEN <<>>
                 ELSE SubSeq(mag, 1, Len(mag) - bytes)
    IN  IF bits = 0 THEN kept ELSE MagDivSmall(kept, Pow2(bits)).q

\* magnitude shifted left by s bits
MagLsh(mag, s) ==
    IF mag = <<>> THEN <<>>
    ELSE MagMulSmall(mag, Pow2(s % 8)) \o Zeros(s \div 8)

\* the magnitude a - b, for a >= b
MagSub(a, b) ==
    LET n == Len(a)
        y == Zeros(n - Len(b)) \o b
        RECURSIVE F(_, _, _)
        F(i, borrow, acc) ==
            IF i = 0 THEN acc
            ELSE LET v == a[i] - y[i] - borrow
                 IN  IF v < 0 THEN F(i - 1, 1, <<v + 256>> \o acc)
                     ELSE F(i - 1, 0, <<v>> \o acc)
    IN  Strip(F(n, 0, <<>>))

\* magnitude divided by a non-zero magnitude, byte by byte: quotient and
\* remainder
MagDiv(a, d) ==
    LET RECURSIVE Digit(_, _, _)
        Digit(v, lo, hi) ==
            IF lo = hi THEN lo
            ELSE LET mid == (lo + hi + 1) \div 2
                 IN  IF MagCmp(MagMulSmall(d, mid), v) <= 0
                     THEN Digit(v, mid, hi)
                     ELSE Digit(v, lo, mid - 1)
        RECURSIVE F(_, _, _)
        F(i, rem, acc) ==
            IF i > Len(a) THEN [q |-> Strip(acc), r |-> rem]
            ELSE LET v == Strip(rem \o <<a[i]>>)
                     digit == IF MagCmp(d, v) > 0 THEN 0 ELSE Digit(v, 1, 255)
                 IN  F(i + 1, MagSub(v, MagMulSmall(d, digit)),
                       acc \o <<digit>>)
    IN  F(1, <<>>, <<>>)

-----------------------------------------------------------------------------
(* math/big integers                                                        *)

Big(neg, mag) == [neg |-> neg /\ mag # <<>>, mag |-> mag]

BigZero == Big(FALSE, <<>>)

BigOfNat(n) == Big(FALSE, NatToMag(n))

\* big.Int.Sign
BigSign(n) == IF n.mag = <<>> THEN 0 ELSE IF n.neg THEN -1 ELSE 1

\* big.Int.Cmp
BigCmp(a, b) ==
    IF a.neg /\ ~b.neg THEN -1
    ELSE IF ~a.neg /\ b.neg THEN 1
    ELSE IF a.neg THEN MagCmp(b.mag, a.mag)
    ELSE MagCmp(a.mag, b.mag)

BigLeq(a, b) == BigCmp(a, b) <= 0

\* big.Int.Neg
BigNeg(n) == Big(~n.neg, n.mag)

\* big.Int.Mul by big.NewInt(k), k a machine integer
BigMulInt(n, k) ==
    IF k < 0 THEN Big(~n.neg, MagMulSmall(n.mag, -k))
    ELSE Big(n.neg, MagMulSmall(n.mag, k))

\* big.Int.Div by big.NewInt(d), d > 0: Euclidean division, the remainder is
\* never negative, so the quotient of a negative number is rounded down
BigDivInt(n, d) ==
    LET qr == MagDivSmall(n.mag, d)
    IN  IF n.neg /\ qr.r # 0 THEN Big(TRUE, MagInc(qr.q))
        ELSE Big(n.neg, qr.q)

\* big.Int.Lsh
BigLsh(n, s) == Big(n.neg, MagLsh(n.mag, s))

\* big.Int.Rsh: an arithmetic shift, -(((|x| - 1) >> s) + 1) for a negative x
BigRsh(n, s) ==
    IF n.neg THEN Big(TRUE, MagInc(MagRsh(MagDec(n.mag), s)))
    ELSE Big(FALSE, MagRsh(n.mag, s))

-----------------------------------------------------------------------------
(* Compact representation                                                   *)

Compact(hi, lo) == [hi |-> hi, lo |-> lo]

CompactZero == Compact(0, 0)

\* compact & 0x007fffff
CompactMantissa(c) == c.lo % 8388608

\* compact & 0x00800000 != 0
CompactIsNegative(c) == c.lo \div 8388608 = 1

\* compact >> 24
CompactExponent(c) == c.hi

CompactToBigShl(compact) ==
    LET mantissa   == CompactMantissa(compact)
        isNegative == CompactIsNegative(compact)
        exponent   == CompactExponent(compact)
        bn == IF exponent < 3
              THEN BigOfNat(mantissa \div Pow2(8 * (3 - exponent)))
              ELSE Big(FALSE, IF mantissa = 0 THEN <<>>
                              ELSE NatToMag(mantissa) \o Zeros(exponent - 2))
    IN  IF isNegative THEN BigNeg(bn) ELSE bn

CompactToBig(compact) ==
    LET mantissa   == CompactMantissa(compact)
        isNegative == CompactIsNegative(compact)
        exponent   == CompactExponent(compact)
        bn == IF exponent <= 3
              THEN BigOfNat(mantissa \div Pow2(8 * (3 - exponent)))
              ELSE Big(FALSE, IF mantissa = 0 THEN <<>>
                              ELSE NatToMag(mantissa) \o Zeros(exponent - 3))
    IN  IF isNegative THEN BigNeg(bn) ELSE bn

\* the machine word of a big integer's magnitude that holds at most 25 bits
LowWord(n) == MagToNat(n.mag)

ShiftedInPlace(n, s) == [n |-> BigRsh(n, s), tn |-> BigRsh(n, s)]

\* tn := new(big.Int).Set(n); tn.Rsh(tn, s): the numbers n and tn point to
\* afterwards
ShiftedCopy(n, s) == [n |-> n, tn |-> BigRsh(n, s)]

BigToCompactRoundUp(n) ==
    LET exponent0 == Len(n.mag)
        mantissa0 == IF exponent0 <= 3
                     THEN LowWord(n) * Pow2(8 * (3 - exponent0))
                     ELSE LowWord(BigRsh(n, 8 * (exponent0 - 3)))
        signSet   == (mantissa0 \div 8388608) % 2 = 1
        mantissa  == IF signSet THEN (mantissa0 \div 256) + 1 ELSE mantissa0
        exponent  == IF signSet THEN exponent0 + 1 ELSE exponent0
        hiBits    == exponent % 256
        carry     == mantissa \div 16777216
        hi        == IF carry = 1 /\ hiBits % 2 = 0 THEN hiBits + 1 ELSE hiBits
        lo        == mantissa % 16777216
    IN  IF BigSign(n) = 0 THEN CompactZero
        ELSE IF BigSign(n) < 0
             THEN Compact(hi, IF lo \div 8388608 = 1 THEN lo ELSE lo + 8388608)
             ELSE Compact(hi, lo)

BigToCompactSignKept(n) ==
    LET exponent0 == Len(n.mag)
        mantissa0 == IF exponent0 <= 3
                     THEN LowWord(n) * Pow2(8 * (3 - exponent0))
                     ELSE LowWord(BigRsh(n, 8 * (exponent0 - 3)))
        hiBits    == exponent0 % 256
        carry     == mantissa0 \div 16777216
        hi        == IF carry = 1 /\ hiBits % 2 = 0 THEN hiBits + 1 ELSE hiBits
        lo        == mantissa0 % 16777216
    IN  IF BigSign(n) = 0 THEN CompactZero
        ELSE IF BigSign(n) < 0
             THEN Compact(hi, IF lo \div 8388608 = 1 THEN lo ELSE lo + 8388608)
             ELSE Compact(hi, lo)

BigToCompactTwoBytes(n) ==
    LET exponent0 == Len(n.mag)
        mantissa0 == IF exponent0 <= 3
                     THEN LowWord(n) * Pow2(8 * (3 - exponent0))
                     ELSE LowWord(BigRsh(n, 8 * (exponent0 - 3)))
        signSet   == (mantissa0 \div 8388608) % 2 = 1
        mantissa  == IF signSet THEN (mantissa0 \div 65536) * 256 ELSE mantissa0
        exponent  == IF signSet THEN exponent0 + 1 ELSE exponent0
        hiBits    == exponent % 256
        carry     == mantissa \div 16777216
        hi        == IF carry = 1 /\ hiBits % 2 = 0 THEN hiBits + 1 ELSE hiBits
        lo        == mantissa % 16777216
    IN  IF BigSign(n) = 0 THEN CompactZero
        ELSE IF BigSign(n) < 0
             THEN Compact(hi, IF lo \div 8388608 = 1 THEN lo ELSE lo + 8388608)
             ELSE Compact(hi, lo)

BigToCompact(n) ==
    LET exponent0 == Len(n.mag)
        mantissa0 == IF exponent0 <= 3
                     THEN LowWord(n) * Pow2(8 * (3 - exponent0))
                     ELSE LowWord(ShiftedCopy(n, 8 * (exponent0 - 3)).tn)
        signSet   == (mantissa0 \div 8388608) % 2 = 1
        mantissa  == IF signSet THEN mantissa0 \div 256 ELSE mantissa0
        exponent  == IF signSet THEN exponent0 + 1 ELSE exponent0
        \* uint32(exponent<<24) | mantissa: the mantissa of a negative number
        \* can be 0x1000000, whose bit 24 is or-ed into the exponent byte
        hiBits    == exponent % 256
        carry     == mantissa \div 16777216
        hi        == IF carry = 1 /\ hiBits % 2 = 0 THEN hiBits + 1 ELSE hiBits
        lo        == mantissa % 16777216
    IN  IF BigSign(n) = 0 THEN CompactZero
        ELSE IF BigSign(n) < 0
             THEN Compact(hi, IF lo \div 8388608 = 1 THEN lo ELSE lo + 8388608)
             ELSE Compact(hi, lo)

\* the number the caller of BigToCompact(n) passed, when the call returns
BigToCompactLeaves(n) ==
    IF BigSign(n) = 0 \/ Len(n.mag) <= 3 THEN n
    ELSE ShiftedCopy(n, 8 * (Len(n.mag) - 3)).n

-----------------------------------------------------------------------------
(* CalcWork                                                                 *)

bigOne == BigOfNat(1)

\* 1 shifted left 256 bits
oneLsh256 == BigLsh(bigOne, 256)

CalcWorkNotInverted(bits) ==
    LET difficultyNum == CompactToBig(bits)
        denominator == Big(FALSE, MagInc(difficultyNum.mag))
    IN  IF BigSign(difficultyNum) <= 0 THEN BigZero
        ELSE denominator

CalcWork(bits) ==
    LET difficultyNum == CompactToBig(bits)
        denominator == Big(FALSE, MagInc(difficultyNum.mag))
    IN  IF BigSign(difficultyNum) <= 0 THEN BigZero
        ELSE Big(FALSE, MagDiv(oneLsh256.mag, denominator.mag).q)

-----------------------------------------------------------------------------
(* Header/chain abstraction.  A ChainCtx c is [params, base, hdrs]; a       *)
(* HeaderCtx is an index into c.hdrs, 0 standing for nil.                   *)

NilNode == 0

\* HeaderCtx.Height
Height(c, node) == c.base + node - 1

\* HeaderCtx.Timestamp
Timestamp(c, node) == c.hdrs[node].timestamp

\* HeaderCtx.Bits
Bits(c, node) == c.hdrs[node].bits

\* HeaderCtx.Parent: nil for the oldest header the storage links to
Parent(c, node) == node - 1

\* HeaderCtx.RelativeAncestorCtx: the header distance generations back, nil
\* when the chain is too short
RelativeAncestorCtx(c, node, distance) ==
    IF distance < 0 \/ distance >= node THEN NilNode ELSE node - distance

\* ChainCtx.BlocksPerRetarget
BlocksPerRetarget(c) == c.params.TargetTimespan \div c.params.TargetTimePerBlock

\* ChainCtx.MinRetargetTimespan
MinRetargetTimespan(c) ==
    c.params.TargetTimespan \div c.params.RetargetAdjustmentFactor

\* ChainCtx.MaxRetargetTimespan
MaxRetargetTimespan(c) ==
    c.params.TargetTimespan * c.params.RetargetAdjustmentFactor

-----------------------------------------------------------------------------
(* Results.  kind is "ok", "AssertError" or "panic" (a run-time panic of    *)
(* the Go code: a nil dereference or a division by zero).  algo, firstNode  *)
(* and target record which algorithm produced the result, the first node of *)
(* the legacy window and the target before the PowLimit cap; encoded names *)
(* the big integer handed to BigToCompact: the function's own target or    *)
(* params.PowLimit itself.                                                  *)

Ret(kind, bits, algo, firstNode, target) ==
    [kind |-> kind, bits |-> bits, algo |-> algo,
     firstNode |-> firstNode, target |-> target, encoded |-> "target"]

Ok(bits, algo) == Ret("ok", bits, algo, NilNode, BigZero)

AssertError(algo) == Ret("AssertError", CompactZero, algo, NilNode, BigZero)

Panic(algo) == Ret("panic", CompactZero, algo, NilNode, BigZero)

\* newTarget.Set(params.PowLimit) when newTarget is above it: the numbers
\* newTarget and params.PowLimit point to afterwards
LimitedToPowLimit(newTarget, powLimit) ==
    [newTarget |-> IF BigCmp(newTarget, powLimit) > 0 THEN powLimit
                   ELSE newTarget,
     powLimit |-> powLimit]

\* Limit new value to the proof of work limit.
CapToPowLimit(c, target) ==
    LimitedToPowLimit(target, c.params.PowLimit).newTarget

-----------------------------------------------------------------------------
(* calcEasiestDifficulty                                                    *)

\* the loop "for durationVal > 0 && newTarget.Cmp(PowLimit) < 0"
RECURSIVE EasiestTarget(_, _, _)
EasiestTarget(newTarget, durationVal, c) ==
    IF durationVal > 0 /\ BigCmp(newTarget, c.params.PowLimit) < 0
    THEN EasiestTarget(
             BigMulInt(newTarget, c.params.RetargetAdjustmentFactor),
             durationVal - MaxRetargetTimespan(c), c)
    ELSE newTarget

\* the bits returned and params.PowLimit when the call returns
calcEasiestDifficulty(bits, durationVal, c) ==
    LET easiest == EasiestTarget(CompactToBig(bits), durationVal, c)
        limited == LimitedToPowLimit(easiest, c.params.PowLimit)
    IN  IF c.params.ReduceMinDifficulty
           /\ durationVal > c.params.MinDiffReductionTime
        THEN [bits |-> c.params.PowLimitBits, powLimit |-> c.params.PowLimit]
        ELSE [bits |-> BigToCompact(limited.newTarget),
              powLimit |-> limited.powLimit]

-----------------------------------------------------------------------------
(* findPrevTestNetDifficulty                                                *)

RECURSIVE findPrevTestNetNode(_, _)
findPrevTestNetNode(c, iterNode) ==
    IF /\ iterNode # NilNode
       /\ Height(c, iterNode) % BlocksPerRetarget(c) # 0
       /\ Bits(c, iterNode) = c.params.PowLimitBits
    THEN findPrevTestNetNode(c, Parent(c, iterNode))
    ELSE iterNode

findPrevTestNetDifficulty(startNode, c) ==
    LET iterNode == findPrevTestNetNode(c, startNode)
    IN  IF iterNode # NilNode THEN Bits(c, iterNode) ELSE c.params.PowLimitBits

-----------------------------------------------------------------------------
(* Original BTC-style retarget: calcNextRequiredDifficulty from line 249    *)

LegacyWindowFull(c, lastNode) == BlocksPerRetarget(c)

LegacyWindowSwapped(c, lastNode) ==
    IF Height(c, lastNode) + 1 # BlocksPerRetarget(c)
    THEN BlocksPerRetarget(c) - 1
    ELSE BlocksPerRetarget(c)

\* the number of generations between lastNode and the first node of the window
LegacyWindow(c, lastNode) ==
    IF Height(c, lastNode) + 1 # BlocksPerRetarget(c)
    THEN BlocksPerRetarget(c)
    ELSE BlocksPerRetarget(c) - 1

AdjustedTimespanNoFloor(c, actualTimespan) ==
    IF actualTimespan > MaxRetargetTimespan(c) THEN MaxRetargetTimespan(c)
    ELSE actualTimespan

AdjustedTimespan(c, actualTimespan) ==
    IF actualTimespan < MinRetargetTimespan(c) THEN MinRetargetTimespan(c)
    ELSE IF actualTimespan > MaxRetargetTimespan(c) THEN MaxRetargetTimespan(c)
    ELSE actualTimespan

LegacyRetarget(lastNode, c) ==
    LET firstNode == RelativeAncestorCtx(c, lastNode, LegacyWindow(c, lastNode))
        actualTimespan == Timestamp(c, lastNode) - Timestamp(c, firstNode)
        adjustedTimespan == AdjustedTimespan(c, actualTimespan)
        oldTarget == CompactToBig(Bits(c, lastNode))
        newTarget == BigDivInt(BigMulInt(oldTarget, adjustedTimespan),
                               c.params.TargetTimespan)
    IN  IF firstNode = NilNode THEN AssertError("legacy")
        ELSE Ret("ok", BigToCompact(CapToPowLimit(c, newTarget)), "legacy",
                 firstNode, newTarget)

LegacyRecoded(lastNode, newBlockTime, c) ==
    IF (Height(c, lastNode) + 1) % BlocksPerRetarget(c) # 0
    THEN IF c.params.ReduceMinDifficulty
         THEN IF newBlockTime > Timestamp(c, lastNode) + c.params.MinDiffReductionTime
              THEN Ok(c.params.PowLimitBits, "legacy")
              ELSE Ok(findPrevTestNetDifficulty(lastNode, c), "legacy")
         ELSE Ok(BigToCompact(CapToPowLimit(c, CompactToBig(Bits(c, lastNode)))),
                 "legacy")
    ELSE LegacyRetarget(lastNode, c)

LegacyAtLeast(lastNode, newBlockTime, c) ==
    IF (Height(c, lastNode) + 1) % BlocksPerRetarget(c) # 0
    THEN IF c.params.ReduceMinDifficulty
         THEN IF newBlockTime >= Timestamp(c, lastNode) + c.params.MinDiffReductionTime
              THEN Ok(c.params.PowLimitBits, "legacy")
              ELSE Ok(findPrevTestNetDifficulty(lastNode, c), "legacy")
         ELSE Ok(Bits(c, lastNode), "legacy")
    ELSE LegacyRetarget(lastNode, c)

LegacyAlwaysReduces(lastNode, newBlockTime, c) ==
    IF (Height(c, lastNode) + 1) % BlocksPerRetarget(c) # 0
    THEN IF newBlockTime > Timestamp(c, lastNode) + c.params.MinDiffReductionTime
         THEN Ok(c.params.PowLimitBits, "legacy")
         ELSE Ok(findPrevTestNetDifficulty(lastNode, c), "legacy")
    ELSE LegacyRetarget(lastNode, c)

Legacy(lastNode, newBlockTime, c) ==
    IF (Height(c, lastNode) + 1) % BlocksPerRetarget(c) # 0
    THEN IF c.params.ReduceMinDifficulty
         THEN IF newBlockTime > Timestamp(c, lastNode) + c.params.MinDiffReductionTime
              THEN Ok(c.params.PowLimitBits, "legacy")
              ELSE Ok(findPrevTestNetDifficulty(lastNode, c), "legacy")
         ELSE Ok(Bits(c, lastNode), "legacy")
    ELSE LegacyRetarget(lastNode, c)

-----------------------------------------------------------------------------
(* LWMA v1 and LWMA v2                                                      *)

\* blocks := height - LWMAHeight, at most LWMAWindow
LWMABlocks(lastNode, c) ==
    Min2(Height(c, lastNode) + 1 - c.params.LWMAHeight, c.params.LWMAWindow)

ClampSolvetimeAbove(solvetime, T) ==
    IF solvetime > 6 * T THEN 6 * T ELSE solvetime

\* solvetime clamped to [1, 6*T]
ClampSolvetime(solvetime, T) ==
    IF solvetime < 1 THEN 1
    ELSE IF solvetime > 6 * T THEN 6 * T
    ELSE solvetime

\* the loop "for i := blocks; i >= 1; i--": the sums when it ends
RECURSIVE LWMASums(_, _, _, _, _)
LWMASums(c, block, i, sumWeightedSolvetimes, sumWeights) ==
    IF i < 1 \/ Parent(c, block) = NilNode
    THEN [sumWeightedSolvetimes |-> sumWeightedSolvetimes,
          sumWeights |-> sumWeights]
    ELSE LET prev == Parent(c, block)
             solvetime == ClampSolvetime(
                 Timestamp(c, block) - Timestamp(c, prev),
                 c.params.TargetTimePerBlock)
         IN  LWMASums(c, prev, i - 1,
                      sumWeightedSolvetimes + solvetime * i, sumWeights + i)

ClampWeightedNoFloor(sumWeightedSolvetimes, expected, cap) ==
    LET maxWS == expected * cap
    IN  IF sumWeightedSolvetimes > maxWS THEN maxWS ELSE sumWeightedSolvetimes

\* sumWeightedSolvetimes limited to [expected / cap, expected * cap]
ClampWeighted(sumWeightedSolvetimes, expected, cap) ==
    LET minWS == expected \div cap
        maxWS == expected * cap
        low   == IF sumWeightedSolvetimes < minWS THEN minWS
                 ELSE sumWeightedSolvetimes
    IN  IF low > maxWS THEN maxWS ELSE low

\* the part LWMA v1 and v2 share: the result from the target they start from
LWMAFrom(startTarget, lastNode, c, cap, algo) ==
    LET sums == LWMASums(c, lastNode, LWMABlocks(lastNode, c), 0, 0)
        expectedWeightedSolvetimes == sums.sumWeights * c.params.TargetTimePerBlock
        clamped == ClampWeighted(sums.sumWeightedSolvetimes,
                                 expectedWeightedSolvetimes, cap)
        nextTarget == BigDivInt(BigMulInt(startTarget, clamped),
                                expectedWeightedSolvetimes)
    IN  IF expectedWeightedSolvetimes = 0 THEN Panic(algo)
        ELSE Ret("ok", BigToCompact(CapToPowLimit(c, nextTarget)), algo,
                 NilNode, nextTarget)

calcNextRequiredDifficultyLWMA(lastNode, c) ==
    IF LWMABlocks(lastNode, c) < 3 THEN Ok(Bits(c, lastNode), "LWMA")
    ELSE LWMAFrom(CompactToBig(Bits(c, lastNode)), lastNode, c, 10, "LWMA")

\* the window start: blocks parents back, or the oldest header reached
RECURSIVE LWMAWindowStart(_, _, _)
LWMAWindowStart(c, windowStart, i) ==
    IF i <= 0 \/ Parent(c, windowStart) = NilNode THEN windowStart
    ELSE LWMAWindowStart(c, Parent(c, windowStart), i - 1)

calcNextRequiredDifficultyLWMAv2LastBits(lastNode, c) ==
    IF LWMABlocks(lastNode, c) < 3 THEN Ok(Bits(c, lastNode), "LWMAv2")
    ELSE LWMAFrom(CompactToBig(Bits(c, lastNode)), lastNode, c, 3, "LWMAv2")

calcNextRequiredDifficultyLWMAv2(lastNode, c) ==
    IF LWMABlocks(lastNode, c) < 3 THEN Ok(Bits(c, lastNode), "LWMAv2")
    ELSE LET windowStart == LWMAWindowStart(c, lastNode, LWMABlocks(lastNode, c))
         IN  LWMAFrom(CompactToBig(Bits(c, windowStart)), lastNode, c, 3, "LWMAv2")

-----------------------------------------------------------------------------
(* ASERT                                                                    *)

\* Go's integer division, which truncates toward zero
TruncDiv(a, b) == IF a >= 0 THEN a \div b ELSE -((-a) \div b)

\* sum of two magnitudes
MagAdd(a, b) ==
    LET n == IF Len(a) > Len(b) THEN Len(a) ELSE Len(b)
        x == Zeros(n - Len(a)) \o a
        y == Zeros(n - Len(b)) \o b
        RECURSIVE F(_, _, _)
        F(i, carry, acc) ==
            IF i = 0 THEN NatToMag(carry) \o acc
            ELSE LET v == x[i] + y[i] + carry
                 IN  F(i - 1, v \div 256, <<v % 256>> \o acc)
    IN  Strip(F(n, 0, <<>>))

\* a magnitude as a uint64: the low 8 bytes
Uint64(mag) == IF Len(mag) > 8 THEN Strip(SubSeq(mag, Len(mag) - 7, Len(mag)))
               ELSE mag

\* an int64 that fits a machine integer of the model, as a big integer
BigOfInt(i) == IF i < 0 THEN Big(TRUE, NatToMag(-i)) ELSE BigOfNat(i)

\* the least int32
MinInt32 == -2147483647 - 1

\* int32(v) for a non-negative int64 v: its low 32 bits, in two's complement
Int32(mag) ==
    LET padded == Zeros(4) \o mag
        low == SubSeq(padded, Len(padded) - 3, Len(padded))
    IN  IF low[1] < 128 THEN MagToNat(low)
        ELSE MagToNat(<<low[1] - 128>> \o Tail(low)) - 2147483647 - 1

\* -x and x - 1 in int32, which wrap around at the least int32
Neg32(x) == IF x = MinInt32 THEN x ELSE -x

Dec32(x) == IF x = MinInt32 THEN 2147483647 ELSE x - 1

\* v & 0xFFFF for a non-negative int64 v
Low16(mag) ==
    LET padded == Zeros(2) \o mag
    IN  padded[Len(padded) - 1] * 256 + padded[Len(padded)]

\* a magnitude as a uint32: the low 4 bytes
Uint32(mag) == IF Len(mag) > 4 THEN Strip(SubSeq(mag, Len(mag) - 3, Len(mag)))
               ELSE mag

ASERTSumNarrow(frac) ==
    LET f1 == MagMulSmall(<<178, 12, 108, 29, 208, 249>>, frac)
        f2 == MagMulSmall(Uint32(MagMulSmall(NatToMag(971821376), frac)), frac)
        f3 == MagMulSmall(Uint32(MagMulSmall(Uint32(
                  MagMulSmall(NatToMag(5127), frac)), frac)), frac)
    IN  Uint32(MagAdd(MagAdd(MagAdd(Uint32(f1), Uint32(f2)), Uint32(f3)),
                      <<128, 0, 0, 0, 0, 0>>))

\* 195766423245049*f + 971821376*f*f + 5127*f*f*f + (1<<47) in uint64
ASERTSum(frac) ==
    LET f1 == MagMulSmall(<<178, 12, 108, 29, 208, 249>>, frac)
        f2 == MagMulSmall(Uint64(MagMulSmall(NatToMag(971821376), frac)), frac)
        f3 == MagMulSmall(Uint64(MagMulSmall(Uint64(
                  MagMulSmall(NatToMag(5127), frac)), frac)), frac)
    IN  Uint64(MagAdd(MagAdd(MagAdd(Uint64(f1), Uint64(f2)), Uint64(f3)),
                      <<128, 0, 0, 0, 0, 0>>))

\* 2^(frac/65536) * 65536 by the cubic polynomial, in uint64 arithmetic
ASERTFactor(frac) ==
    IF frac > 0 THEN 65536 + MagToNat(MagRsh(ASERTSum(frac), 48)) ELSE 65536

ASERTSplitNoExact(exponent) ==
    IF ~exponent.neg
    THEN [shifts |-> Int32(MagRsh(exponent.mag, 16)),
          frac |-> Low16(exponent.mag)]
    ELSE LET absExponent == exponent.mag
             remainder == Low16(absExponent)
         IN  [shifts |-> Dec32(Neg32(Int32(MagRsh(absExponent, 16)))),
              frac |-> (65536 - remainder) % 65536]

\* the exponent, an int64 above the least one, split into integer shifts
\* (an int32) and a fraction in [0, 65536)
ASERTSplit(exponent) ==
    IF ~exponent.neg
    THEN [shifts |-> Int32(MagRsh(exponent.mag, 16)),
          frac |-> Low16(exponent.mag)]
    ELSE LET absExponent == exponent.mag
             shifts == Neg32(Int32(MagRsh(absExponent, 16)))
             remainder == Low16(absExponent)
         IN  IF remainder # 0
             THEN [shifts |-> Dec32(shifts), frac |-> 65536 - remainder]
             ELSE [shifts |-> shifts, frac |-> 0]

\* nextTarget.Rsh(nextTarget, uint(absShifts)): a negative absShifts is a
\* shift by more than 2^63 bits
RshUint(n, absShifts) ==
    IF absShifts >= 0 THEN BigRsh(n, absShifts)
    ELSE IF n.neg THEN Big(TRUE, <<1>>) ELSE BigZero

\* the walk "for anchor.Height() > params.ASERTHeight": the anchor, or nil
\* when the parents end first (anchor.Height() is then called on nil)
RECURSIVE ASERTAnchor(_, _)
ASERTAnchor(c, anchor) ==
    IF anchor = NilNode THEN NilNode
    ELSE IF Height(c, anchor) > c.params.ASERTHeight
         THEN ASERTAnchor(c, Parent(c, anchor))
         ELSE anchor

calcNextRequiredDifficultyASERTAnchorBlock(lastNode, c) ==
    LET anchor == ASERTAnchor(c, lastNode)
        anchorParent == Parent(c, anchor)
        anchorTarget == CompactToBig(Bits(c, anchor))
        timeDelta == Timestamp(c, lastNode) - Timestamp(c, anchorParent)
        heightDelta == Height(c, lastNode) + 1 - c.params.ASERTHeight
        T == c.params.TargetTimePerBlock
        exponent == TruncDiv((timeDelta - T * heightDelta) * 65536,
                             c.params.ASERTHalfLife)
        split == ASERTSplit(BigOfInt(exponent))
        factor == ASERTFactor(split.frac)
        scaled == BigRsh(BigMulInt(anchorTarget, factor), 16)
        shifted == IF split.shifts > 0 THEN BigLsh(scaled, split.shifts)
                   ELSE IF split.shifts < 0 THEN RshUint(scaled, Neg32(split.shifts))
                   ELSE scaled
        nextTarget == IF BigSign(shifted) = 0 THEN BigOfNat(1) ELSE shifted
    IN  IF anchor = NilNode THEN Panic("ASERT")
        ELSE IF anchorParent = NilNode THEN AssertError("ASERT")
        ELSE IF split.shifts >= 256
             THEN [Ret("ok", BigToCompact(c.params.PowLimit), "ASERT",
                       NilNode, c.params.PowLimit)
                   EXCEPT !.encoded = "PowLimit"]
        ELSE IF Neg32(split.shifts) >= 256
             THEN Ret("ok", BigToCompact(BigOfNat(1)), "ASERT",
                      NilNode, BigOfNat(1))
        ELSE Ret("ok", BigToCompact(CapToPowLimit(c, nextTarget)), "ASERT",
                 NilNode, nextTarget)

calcNextRequiredDifficultyASERTNoFloor(lastNode, c) ==
    LET anchor == ASERTAnchor(c, lastNode)
        anchorParent == Parent(c, anchor)
        anchorTarget == CompactToBig(c.params.ASERTAnchorBits)
        timeDelta == Timestamp(c, lastNode) - Timestamp(c, anchorParent)
        heightDelta == Height(c, lastNode) + 1 - c.params.ASERTHeight
        T == c.params.TargetTimePerBlock
        exponent == TruncDiv((timeDelta - T * heightDelta) * 65536,
                             c.params.ASERTHalfLife)
        split == ASERTSplit(BigOfInt(exponent))
        factor == ASERTFactor(split.frac)
        scaled == BigRsh(BigMulInt(anchorTarget, factor), 16)
        shifted == IF split.shifts > 0 THEN BigLsh(scaled, split.shifts)
                   ELSE IF split.shifts < 0 THEN RshUint(scaled, Neg32(split.shifts))
                   ELSE scaled
        nextTarget == shifted
    IN  IF anchor = NilNode THEN Panic("ASERT")
        ELSE IF anchorParent = NilNode THEN AssertError("ASERT")
        ELSE IF split.shifts >= 256
             THEN [Ret("ok", BigToCompact(c.params.PowLimit), "ASERT",
                       NilNode, c.params.PowLimit)
                   EXCEPT !.encoded = "PowLimit"]
        ELSE IF Neg32(split.shifts) >= 256
             THEN Ret("ok", BigToCompact(BigOfNat(1)), "ASERT",
                      NilNode, BigOfNat(1))
        ELSE Ret("ok", BigToCompact(CapToPowLimit(c, nextTarget)), "ASERT",
                 NilNode, nextTarget)

calcNextRequiredDifficultyASERT(lastNode, c) ==
    LET anchor == ASERTAnchor(c, lastNode)
        anchorParent == Parent(c, anchor)
        anchorTarget == CompactToBig(c.params.ASERTAnchorBits)
        timeDelta == Timestamp(c, lastNode) - Timestamp(c, anchorParent)
        heightDelta == Height(c, lastNode) + 1 - c.params.ASERTHeight
        T == c.params.TargetTimePerBlock
        exponent == TruncDiv((timeDelta - T * heightDelta) * 65536,
                             c.params.ASERTHalfLife)
        split == ASERTSplit(BigOfInt(exponent))
        factor == ASERTFactor(split.frac)
        scaled == BigRsh(BigMulInt(anchorTarget, factor), 16)
        shifted == IF split.shifts > 0 THEN BigLsh(scaled, split.shifts)
                   ELSE IF split.shifts < 0 THEN RshUint(scaled, Neg32(split.shifts))
                   ELSE scaled
        nextTarget == IF BigSign(shifted) = 0 THEN BigOfNat(1) ELSE shifted
    IN  IF anchor = NilNode THEN Panic("ASERT")
        ELSE IF anchorParent = NilNode THEN AssertError("ASERT")
        ELSE IF split.shifts >= 256
             THEN [Ret("ok", BigToCompact(c.params.PowLimit), "ASERT",
                       NilNode, c.params.PowLimit)
                   EXCEPT !.encoded = "PowLimit"]
        ELSE IF Neg32(split.shifts) >= 256
             THEN Ret("ok", BigToCompact(BigOfNat(1)), "ASERT",
                      NilNode, BigOfNat(1))
        ELSE Ret("ok", BigToCompact(CapToPowLimit(c, nextTarget)), "ASERT",
                 NilNode, nextTarget)

-----------------------------------------------------------------------------
(* The dispatcher                                                           *)

calcNextRequiredDifficultyFixOnce(lastNode, newBlockTime, c) ==
    LET nHeight == Height(c, lastNode) + 1
    IN  IF c.params.PoWNoRetargeting THEN Ok(c.params.PowLimitBits, "none")
        ELSE IF lastNode = NilNode THEN Ok(c.params.PowLimitBits, "none")
        ELSE IF c.params.ASERTHeight > 0 /\ nHeight > c.params.ASERTHeight
             THEN calcNextRequiredDifficultyASERT(lastNode, c)
        ELSE IF c.params.LWMAFixHeight > 0 /\ nHeight = c.params.LWMAFixHeight
             THEN calcNextRequiredDifficultyLWMAv2(lastNode, c)
        ELSE IF c.params.LWMAHeight > 0 /\ nHeight >= c.params.LWMAHeight
             THEN calcNextRequiredDifficultyLWMA(lastNode, c)
        ELSE Legacy(lastNode, newBlockTime, c)

calcNextRequiredDifficultyAtAnchor(lastNode, newBlockTime, c) ==
    LET nHeight == Height(c, lastNode) + 1
    IN  IF c.params.PoWNoRetargeting THEN Ok(c.params.PowLimitBits, "none")
        ELSE IF lastNode = NilNode THEN Ok(c.params.PowLimitBits, "none")
        ELSE IF c.params.ASERTHeight > 0 /\ nHeight >= c.params.ASERTHeight
             THEN calcNextRequiredDifficultyASERT(lastNode, c)
        ELSE IF c.params.LWMAFixHeight > 0 /\ nHeight >= c.params.LWMAFixHeight
             THEN calcNextRequiredDifficultyLWMAv2(lastNode, c)
        ELSE IF c.params.LWMAHeight > 0 /\ nHeight >= c.params.LWMAHeight
             THEN calcNextRequiredDifficultyLWMA(lastNode, c)
        ELSE Legacy(lastNode, newBlockTime, c)

calcNextRequiredDifficultyRetargets(lastNode, newBlockTime, c) ==
    LET nHeight == Height(c, lastNode) + 1
    IN  IF lastNode = NilNode THEN Ok(c.params.PowLimitBits, "none")
        ELSE IF c.params.ASERTHeight > 0 /\ nHeight > c.params.ASERTHeight
             THEN calcNextRequiredDifficultyASERT(lastNode, c)
        ELSE IF c.params.LWMAFixHeight > 0 /\ nHeight >= c.params.LWMAFixHeight
             THEN calcNextRequiredDifficultyLWMAv2(lastNode, c)
        ELSE IF c.params.LWMAHeight > 0 /\ nHeight >= c.params.LWMAHeight
             THEN calcNextRequiredDifficultyLWMA(lastNode, c)
        ELSE Legacy(lastNode, newBlockTime, c)

calcNextRequiredDifficulty(lastNode, newBlockTime, c) ==
    LET nHeight == Height(c, lastNode) + 1
    IN  IF c.params.PoWNoRetargeting THEN Ok(c.params.PowLimitBits, "none")
        ELSE IF lastNode = NilNode THEN Ok(c.params.PowLimitBits, "none")
        ELSE IF c.params.ASERTHeight > 0 /\ nHeight > c.params.ASERTHeight
             THEN calcNextRequiredDifficultyASERT(lastNode, c)
        ELSE IF c.params.LWMAFixHeight > 0 /\ nHeight >= c.params.LWMAFixHeight
             THEN calcNextRequiredDifficultyLWMAv2(lastNode, c)
        ELSE IF c.params.LWMAHeight > 0 /\ nHeight >= c.params.LWMAHeight
             THEN calcNextRequiredDifficultyLWMA(lastNode, c)
        ELSE Legacy(lastNode, newBlockTime, c)

-----------------------------------------------------------------------------
(* Network parameters (chaincfg), the difficulty subset, durations in       *)
(* seconds.                                                                 *)

\* 0x0fffff000000000000000000000000000000000000000000000000000000
mainPowLimit == Big(FALSE, <<15, 255, 255>> \o Zeros(27))

\* 2^255 - 1
regressionPowLimit == Big(FALSE, <<127>> \o [i \in 1..31 |-> 255])

testNet4PowLimit == Big(FALSE, <<15, 255, 255>> \o Zeros(27))

\* 0x0377ae << 216
sigNetPowLimit == Big(FALSE, <<3, 119, 174>> \o Zeros(27))

\* 2^255 - 1
simNetPowLimit == Big(FALSE, <<127>> \o [i \in 1..31 |-> 255])

\* A string the code concatenates is the sequence of its characters.
MainNetParams ==
    [Name |-> "mainnet",
     Net |-> "MainNet",
     Bech32HRPSegwit |-> <<"d", "s", "v">>,
     Bech32HRPMweb |-> <<"d", "s", "v", "m", "w", "e", "b">>,
     PubKeyHashAddrID |-> 30,                        \* 0x1e
     ScriptHashAddrID |-> 5,                         \* 0x05
     HDPrivateKeyID |-> <<4, 136, 173, 228>>,        \* 0x0488ade4
     HDPublicKeyID |-> <<4, 136, 178, 30>>,          \* 0x0488b21e
     PowLimit |-> mainPowLimit,
     PowLimitBits |-> Compact(30, 1048560),          \* 0x1e0ffff0
     PoWNoRetargeting |-> FALSE,
     TargetTimespan |-> 302400,
     TargetTimePerBlock |-> 150,
     RetargetAdjustmentFactor |-> 4,
     ReduceMinDifficulty |-> FALSE,
     MinDiffReductionTime |-> 0,
     LWMAHeight |-> 1243845,
     LWMAFixHeight |-> 1244300,
     LWMAWindow |-> 45,
     ASERTHeight |-> 1246000,
     ASERTHalfLife |-> 3600,
     ASERTAnchorBits |-> Compact(29, 1638375)]       \* 0x1d18ffe7

RegressionNetParams ==
    [MainNetParams EXCEPT
     !.Name = "regtest",
     !.Net = "TestNet",
     !.Bech32HRPSegwit = <<"r", "d", "s", "v">>,
     !.Bech32HRPMweb = <<"t", "m", "w", "e", "b">>,
     !.PubKeyHashAddrID = 111,                       \* 0x6f
     !.ScriptHashAddrID = 196,                       \* 0xc4
     !.HDPrivateKeyID = <<4, 53, 131, 148>>,         \* 0x04358394
     !.HDPublicKeyID = <<4, 53, 135, 207>>,          \* 0x043587cf
     !.PowLimit = regressionPowLimit,
     !.PowLimitBits = Compact(32, 8388607),          \* 0x207fffff
     !.PoWNoRetargeting = TRUE,
     !.ReduceMinDifficulty = TRUE,
     !.MinDiffReductionTime = 1200,
     !.LWMAHeight = 500,
     !.LWMAFixHeight = 600,
     !.ASERTHeight = 700]

TestNet4Params ==
    [MainNetParams EXCEPT
     !.Name = "testnet4",
     !.Net = "TestNet4",
     !.Bech32HRPSegwit = <<"t", "d", "s", "v">>,
     !.Bech32HRPMweb = <<"t", "m", "w", "e", "b">>,
     !.PubKeyHashAddrID = 111,                       \* 0x6f
     !.ScriptHashAddrID = 196,                       \* 0xc4
     !.HDPrivateKeyID = <<4, 53, 131, 148>>,         \* 0x04358394
     !.HDPublicKeyID = <<4, 53, 135, 207>>,          \* 0x043587cf
     !.PowLimit = testNet4PowLimit,
     !.PowLimitBits = Compact(30, 1048575),          \* 0x1e0fffff
     !.ReduceMinDifficulty = TRUE,
     !.MinDiffReductionTime = 300,
     !.LWMAHeight = 100,
     !.LWMAFixHeight = 200,
     !.ASERTHeight = 300]

SigNetParams ==
    [MainNetParams EXCEPT
     !.Name = "signet",
     !.Net = "SigNet",          \* the first four bytes of the challenge hash
     !.Bech32HRPSegwit = <<"t", "d", "s", "v">>,
     !.Bech32HRPMweb = <<>>,
     !.PubKeyHashAddrID = 111,                       \* 0x6f
     !.ScriptHashAddrID = 196,                       \* 0xc4
     !.HDPrivateKeyID = <<4, 53, 131, 148>>,         \* 0x04358394
     !.HDPublicKeyID = <<4, 53, 135, 207>>,          \* 0x043587cf
     !.PowLimit = sigNetPowLimit,
     !.PowLimitBits = Compact(32, 8388607),          \* 0x207fffff
     !.MinDiffReductionTime = 1200,
     !.LWMAHeight = 0,
     !.LWMAFixHeight = 0,
     !.LWMAWindow = 0,
     !.ASERTHeight = 0,
     !.ASERTHalfLife = 0,
     !.ASERTAnchorBits = CompactZero]

SimNetParams ==
    [MainNetParams EXCEPT
     !.Name = "simnet",
     !.Net = "SimNet",
     !.Bech32HRPSegwit = <<"s", "d", "s", "v">>,
     !.Bech32HRPMweb = <<>>,
     !.PubKeyHashAddrID = 63,                        \* 0x3f
     !.ScriptHashAddrID = 123,                       \* 0x7b
     !.HDPrivateKeyID = <<4, 32, 185, 0>>,           \* 0x0420b900
     !.HDPublicKeyID = <<4, 32, 189, 58>>,           \* 0x0420bd3a
     !.PowLimit = simNetPowLimit,
     !.PowLimitBits = Compact(32, 8388607),          \* 0x207fffff
     !.ReduceMinDifficulty = TRUE,
     !.MinDiffReductionTime = 1200,
     !.LWMAHeight = 0,
     !.LWMAFixHeight = 0,
     !.LWMAWindow = 0,
     !.ASERTHeight = 0,
     !.ASERTHalfLife = 0,
     !.ASERTAnchorBits = CompactZero]

\* Parameter sets a caller can register: the test network's limits with
\* short timespans and low activation heights, so that every algorithm is
\* reached on a chain of a few headers.
CustomParams(name, timespan, perBlock, reduce, lwma, lwmaFix, asert) ==
    [TestNet4Params EXCEPT
     !.Name = name,
     !.TargetTimespan = timespan,
     !.TargetTimePerBlock = perBlock,
     !.ReduceMinDifficulty = reduce,
     !.MinDiffReductionTime = 2 * perBlock,
     !.LWMAHeight = lwma,
     !.LWMAFixHeight = lwmaFix,
     !.LWMAWindow = 3,
     !.ASERTHeight = asert,
     !.ASERTHalfLife = 2]

\* the parameter sets and, for each, the height the stored chain starts at
\* and how many headers less than MaxBlocks the chain holds at most
Configs ==
    {<<MainNetParams, 0, 2>>, <<MainNetParams, 1245999, 1>>,
     <<MainNetParams, 1246000, 2>>, <<MainNetParams, 1246001, 2>>,
     <<RegressionNetParams, 700, 2>>, <<SigNetParams, 0, 2>>,
     <<TestNet4Params, 0, 1>>, <<SimNetParams, 0, 2>>,
     <<CustomParams("retarget", 4, 2, FALSE, 0, 0, 0), 0, 0>>,
     <<CustomParams("retarget", 4, 2, FALSE, 0, 0, 0), 1, 2>>,
     <<CustomParams("retarget6", 6, 3, FALSE, 0, 0, 0), 0, 2>>,
     <<CustomParams("mindiff", 6, 2, TRUE, 0, 0, 0), 0, 1>>,
     <<CustomParams("mindiff", 6, 2, TRUE, 0, 0, 0), 1, 2>>,
     <<CustomParams("lwma", 44, 11, FALSE, 1, 0, 0), 0, 0>>,
     <<CustomParams("lwma20", 80, 20, FALSE, 1, 0, 0), 3, 2>>,
     <<CustomParams("lwmav2", 4, 2, FALSE, 1, 1, 0), 0, 0>>,
     <<CustomParams("lwmav2x", 80, 20, FALSE, 1, 1, 0), 3, 1>>,
     <<CustomParams("asert", 4, 2, FALSE, 0, 1, 1), 0, 1>>,
     <<[CustomParams("asert298", 4, 2, FALSE, 0, 1, 1)
           EXCEPT !.ASERTHalfLife = 298], 0, 1>>,
     <<CustomParams("all", 4, 2, TRUE, 1, 2, 2), 0, 1>>}

-----------------------------------------------------------------------------
(* Bounds and inputs                                                        *)

\* the most headers the stored chain holds
MaxBlocks == 4

\* seconds between a header and its parent
TimeSteps == {-460, 2, 300}

\* the new block's time, past the moment the minimum difficulty is allowed
NewBlockDelays == {0, 1}

\* the bits a stored header carries
HeaderBits(p) == {p.PowLimitBits, Compact(29, 1638375)}

-----------------------------------------------------------------------------
(* The chain and calls of calcNextRequiredDifficulty                        *)

NoCall == [lastNode |-> -1, newBlockTime |-> 0]

NoResult == Ret("none", CompactZero, "none", NilNode, BigZero)

Ctx == [params |-> params, base |-> base, hdrs |-> chain]

\* b.bestChain.Tip()
Tip == Len(chain)

TipTime == IF chain = <<>> THEN 0 ELSE chain[Len(chain)].timestamp

ChainInit ==
    /\ \E cfg \in Configs : params = cfg[1] /\ base = cfg[2] /\ spare = cfg[3]
    /\ chain = <<>>
    /\ call = NoCall
    /\ result = NoResult

\* the caller's storage gains a header on top of the tip
AddHeader(step, bits) ==
    /\ Len(chain) < MaxBlocks - spare
    /\ chain' = Append(chain, [timestamp |-> TipTime + step, bits |-> bits])
    /\ call' = NoCall
    /\ result' = NoResult
    /\ UNCHANGED <<params, base, spare>>

\* calcNextRequiredDifficulty(b.bestChain.Tip(), timestamp, b)
CalcNext(newBlockTime) ==
    /\ call' = [lastNode |-> Tip, newBlockTime |-> newBlockTime]
    /\ result' = calcNextRequiredDifficulty(Tip, newBlockTime, Ctx)
    /\ UNCHANGED <<params, base, spare, chain>>

-----------------------------------------------------------------------------
(* Calls of the codec                                                       *)

NoValue == [none |-> TRUE]

\* compact values: every exponent byte with mantissas around each boundary
Mantissas ==
    {0, 1, 127, 128, 255, 256, 32767, 32768, 65535, 65536, 1193046,
     8323072, 8388352, 8388607, 8388608, 8388609, 16777215}

CompactInputs == {Compact(e, m) : e \in 0..255, m \in Mantissas}

\* the longest magnitude, in bytes
MaxBytes == 32

\* big integers: every length, leading bytes around each boundary
BigInputs ==
    {BigZero} \cup
    {Big(neg, SubSeq(<<a, b, b2>> \o [i \in 1..MaxBytes |-> f], 1, len)) :
        neg \in BOOLEAN, a \in {1, 127, 128, 255}, b \in {0, 255},
        b2 \in {0, 255}, f \in {0, 255}, len \in 1..MaxBytes}

\* no codec call is made
CodecIdle ==
    /\ codecOp = "none"
    /\ codecCompact = NoValue
    /\ codecBig = NoValue
    /\ codecBack = NoValue
    /\ codecAgain = NoValue

\* a caller holds a compact value or a big integer to convert
CodecInit ==
    /\ codecOp = "ready"
    /\ \/ codecCompact \in CompactInputs /\ codecBig = NoValue
       \/ codecBig \in BigInputs /\ codecCompact = NoValue
    /\ codecBack = NoValue
    /\ codecAgain = NoValue

CallCompactToBig ==
    /\ codecOp = "ready" /\ codecCompact # NoValue
    /\ codecOp' = "CompactToBig"
    /\ codecBig' = CompactToBig(codecCompact)
    /\ UNCHANGED <<codecCompact, codecBack, codecAgain>>

CallBigToCompact ==
    /\ codecOp = "ready" /\ codecBig # NoValue
    /\ codecOp' = "BigToCompact"
    /\ codecCompact' = BigToCompact(codecBig)
    /\ UNCHANGED <<codecBig, codecBack, codecAgain>>

\* BigToCompact(CompactToBig(x))
EncodeDecoded ==
    /\ codecOp = "CompactToBig"
    /\ codecOp' = "CompactToBig,BigToCompact"
    /\ codecBack' = BigToCompact(codecBig)
    /\ UNCHANGED <<codecCompact, codecBig, codecAgain>>

\* CompactToBig(BigToCompact(n))
DecodeEncoded ==
    /\ codecOp = "BigToCompact"
    /\ codecOp' = "BigToCompact,CompactToBig"
    /\ codecBack' = CompactToBig(codecCompact)
    /\ UNCHANGED <<codecCompact, codecBig, codecAgain>>

\* BigToCompact(CompactToBig(BigToCompact(n)))
EncodeAgain ==
    /\ codecOp = "BigToCompact,CompactToBig"
    /\ codecOp' = "BigToCompact,CompactToBig,BigToCompact"
    /\ codecAgain' = BigToCompact(codecBack)
    /\ UNCHANGED <<codecCompact, codecBig, codecBack>>

-----------------------------------------------------------------------------
(* Calls of CalcWork                                                        *)

\* compact values around the smallest targets, the proof-of-work limits and
\* 2^256, of both signs
WorkInputs ==
    {Compact(e, m) : e \in {0, 1, 3, 4, 29, 30, 32, 33, 34, 35},
                     m \in {0, 1, 255, 32768, 8388607, 8388609, 16777215}}

\* no work is computed
WorkIdle == workIn = <<>> /\ workOut = <<>>

\* a caller holds the bits of two headers
WorkInit == workIn \in WorkInputs \X WorkInputs /\ workOut = <<>>

\* CalcWork on the next of the two
CallCalcWork ==
    /\ Len(workOut) < Len(workIn)
    /\ workOut' = Append(workOut, CalcWork(workIn[Len(workOut) + 1]))
    /\ UNCHANGED workIn

-----------------------------------------------------------------------------
(* The exponent of ASERT: the split and the factor, on their own            *)

\* exponent >> 16 of the exponents tried, as magnitudes: around 0, around
\* the shifts of 256 that end the computation, around 2^31 and 2^32
ExponentHighs ==
    {<<>>, <<1>>, <<2>>, <<255>>, <<1, 0>>, <<1, 1>>,
     <<127, 255, 255, 255>>, <<128, 0, 0, 0>>, <<128, 0, 0, 1>>,
     <<255, 255, 255, 255>>, <<1, 0, 0, 0, 0>>, <<1, 0, 0, 0, 5>>,
     <<64, 0, 0, 0, 0, 0>>}

\* exponent & 0xFFFF of the exponents tried away from 0
ExponentLows == {0, 1, 255, 256, 32768, 65535}

\* the exponents tried: every one in [0, 65535], so every frac, and both
\* signs of the others
ExponentInputs ==
    {BigOfNat(lo) : lo \in 0..65535}
    \cup {Big(neg, Strip(hi \o <<lo \div 256, lo % 256>>)) :
              neg \in BOOLEAN, hi \in ExponentHighs, lo \in ExponentLows}

SplitIdle == exponentIn = NoValue /\ splitOut = NoValue

SplitInit == exponentIn \in ExponentInputs /\ splitOut = NoValue

\* lines 525 to 555 of calcNextRequiredDifficultyASERT on the exponent
SplitExponent ==
    /\ splitOut = NoValue
    /\ LET split == ASERTSplit(exponentIn)
       IN  splitOut' = [shifts |-> split.shifts, frac |-> split.frac,
                        sum |-> IF split.frac > 0 THEN ASERTSum(split.frac)
                                ELSE <<>>,
                        factor |-> ASERTFactor(split.frac)]
    /\ UNCHANGED exponentIn

-----------------------------------------------------------------------------
(* A chain of a shipped network growing across the activation heights       *)

\* the shipped parameter sets that retarget and the heights their stored
\* chain starts at: two below each activation height
GrowConfigs ==
    {<<MainNetParams, 0, 1>>, <<MainNetParams, 1243843, 0>>,
     <<MainNetParams, 1244298, 0>>, <<MainNetParams, 1245998, 0>>,
     <<TestNet4Params, 0, 1>>, <<TestNet4Params, 98, 0>>,
     <<TestNet4Params, 198, 0>>, <<TestNet4Params, 298, 0>>,
     <<SimNetParams, 0, 0>>, <<SigNetParams, 0, 0>>}

\* seconds between the headers of the growing chain
GrowSteps == {150, 900}

GrowInit ==
    /\ \E cfg \in GrowConfigs :
           params = cfg[1] /\ base = cfg[2] /\ spare = cfg[3]
    /\ chain = <<>>
    /\ call = NoCall
    /\ result = NoResult

\* a block is connected on top of the tip
GrowHeader(step) == AddHeader(step, params.PowLimitBits)

\* the difficulty of the block after the tip is asked for
GrowCalcNext == CalcNext(TipTime + params.TargetTimePerBlock)

-----------------------------------------------------------------------------
(* A caller of the whole package: the five functions in any order, on one   *)
(* parameter set, one chain and one big integer of its own                  *)

NoneDone == [op |-> "none", in |-> <<>>, out |-> <<>>]

Done(op, in, out) == [op |-> op, in |-> in, out |-> out]

FrameIdle == callerBig = NoValue /\ did = NoneDone

\* the parameter sets of the caller: one for each algorithm
FrameConfigs ==
    {cfg \in Configs :
        cfg[1].Name \in {"retarget", "lwma", "asert"}
        /\ cfg[2] = 0}

\* seconds between the headers of the caller's chain
FrameSteps == {2, 300}

\* the big integers the caller holds: of at most 3 bytes and of more
FrameBigs == {BigOfNat(32768), Big(TRUE, <<255, 255, 255, 255>>)}

\* the compact values and the durations the caller passes
FrameBits == {Compact(29, 65535), Compact(33, 65535)}

FrameDurations == {0, 20}

FrameInit ==
    /\ \E cfg \in FrameConfigs :
           params = cfg[1] /\ base = cfg[2] /\ spare = cfg[3]
    /\ chain = <<>>
    /\ call = NoCall
    /\ result = NoResult
    /\ callerBig \in FrameBigs
    /\ did = NoneDone

\* the caller's chain grows
FrameAddHeader(step) ==
    /\ AddHeader(step, params.PowLimitBits)
    /\ UNCHANGED frameVars

\* params.PowLimit when calcNextRequiredDifficulty returns r: the function
\* limits its own target to it, or encodes it
PowLimitAfter(r, powLimit) ==
    IF r.kind # "ok" THEN powLimit
    ELSE IF r.encoded = "PowLimit" THEN BigToCompactLeaves(powLimit)
    ELSE LimitedToPowLimit(r.target, powLimit).powLimit

FrameCalcNext(newBlockTime) ==
    LET r == calcNextRequiredDifficulty(Tip, newBlockTime, Ctx)
    IN  /\ call' = [lastNode |-> Tip, newBlockTime |-> newBlockTime]
        /\ result' = r
        /\ params' = [params EXCEPT !.PowLimit = PowLimitAfter(r, params.PowLimit)]
        /\ did' = Done("calcNextRequiredDifficulty",
                       <<chain, Tip, newBlockTime>>, <<r.kind, r.bits>>)
        /\ UNCHANGED <<base, spare, chain, callerBig>>

FrameCalcEasiest(bits, durationVal) ==
    LET r == calcEasiestDifficulty(bits, durationVal, Ctx)
    IN  /\ params' = [params EXCEPT !.PowLimit = r.powLimit]
        /\ did' = Done("calcEasiestDifficulty", <<bits, durationVal>>, r.bits)
        /\ UNCHANGED <<base, spare, chain, call, result, callerBig>>

FrameCompactToBig(compact) ==
    /\ did' = Done("CompactToBig", compact, CompactToBig(compact))
    /\ UNCHANGED <<chainVars, callerBig>>

\* BigToCompact(n) on the caller's own number
FrameBigToCompact ==
    /\ did' = Done("BigToCompact", "n", BigToCompact(callerBig))
    /\ callerBig' = BigToCompactLeaves(callerBig)
    /\ UNCHANGED chainVars

\* BigToCompact(params.PowLimit)
FrameEncodePowLimit ==
    /\ did' = Done("BigToCompact", "params.PowLimit",
                   BigToCompact(params.PowLimit))
    /\ params' = [params EXCEPT !.PowLimit = BigToCompactLeaves(params.PowLimit)]
    /\ UNCHANGED <<base, spare, chain, call, result, callerBig>>

FrameCalcWork(bits) ==
    /\ did' = Done("CalcWork", bits, CalcWork(bits))
    /\ UNCHANGED <<chainVars, callerBig>>

-----------------------------------------------------------------------------
(* Callers of BlockChain.CalcNextRequiredDifficulty and the chain lock      *)

\* the goroutines that call it
Callers == {1, 2}

\* nobody is calling
LockIdle == chainLock = 0 /\ pc = [p \in Callers |-> "idle"]

\* the chains the callers work on: the main network's
LockConfigs == {cfg \in Configs : cfg[1] = MainNetParams}

LockChainInit ==
    /\ \E cfg \in LockConfigs : params = cfg[1] /\ base = cfg[2] /\ spare = cfg[3]
    /\ chain = <<>>
    /\ call = NoCall
    /\ result = NoResult

\* a block is connected, which is done under the chain lock
ConnectHeader(step, bits) ==
    /\ chainLock = 0
    /\ AddHeader(step, bits)
    /\ UNCHANGED lockVars

\* b.chainLock.Lock(): blocks while another caller holds the lock
Lock(p) ==
    /\ pc[p] = "idle"
    /\ chainLock = 0
    /\ chainLock' = p
    /\ pc' = [pc EXCEPT ![p] = "locked"]
    /\ UNCHANGED chainVars

\* calcNextRequiredDifficulty(b.bestChain.Tip(), timestamp, b): a panic
\* unwinds the caller's stack, past the Unlock that is not deferred
Dispatch(p, newBlockTime) ==
    /\ pc[p] = "locked"
    /\ CalcNext(newBlockTime)
    /\ pc' = [pc EXCEPT ![p] =
                 IF calcNextRequiredDifficulty(Tip, newBlockTime, Ctx).kind
                        = "panic"
                 THEN "panicked" ELSE "computed"]
    /\ UNCHANGED chainLock

\* b.chainLock.Unlock()
Unlock(p) ==
    /\ pc[p] = "computed"
    /\ chainLock' = 0
    /\ pc' = [pc EXCEPT ![p] = "unlocked"]
    /\ UNCHANGED chainVars

\* return difficulty, err
Return(p) ==
    /\ pc[p] = "unlocked"
    /\ pc' = [pc EXCEPT ![p] = "idle"]
    /\ UNCHANGED <<chainLock, chainVars>>

-----------------------------------------------------------------------------
(* The registries of chaincfg.  A registry value is the record of the six   *)
(* package-level maps; a map to struct{} is the set of its keys.            *)

NoRegistries ==
    [registeredNets |-> {}, pubKeyHashAddrIDs |-> {},
     scriptHashAddrIDs |-> {}, bech32SegwitPrefixes |-> {},
     bech32MwebPrefixes |-> {}, hdPrivToPubKeyIDs |-> <<>>]

\* m[key] = value
MapSet(m, key, value) ==
    [k \in DOMAIN m \cup {key} |-> IF k = key THEN value ELSE m[k]]

RegisterHDKeyID(reg, hdPublicKeyID, hdPrivateKeyID) ==
    IF Len(hdPublicKeyID) # 4 \/ Len(hdPrivateKeyID) # 4
    THEN [reg |-> reg, err |-> "ErrInvalidHDKeyID"]
    ELSE [reg |-> [reg EXCEPT !.hdPrivToPubKeyIDs =
                       MapSet(@, hdPrivateKeyID, hdPublicKeyID)],
          err |-> "nil"]

RegisterIDsFirst(reg, p) ==
    LET ids == [reg EXCEPT
                !.pubKeyHashAddrIDs = @ \cup {p.PubKeyHashAddrID},
                !.scriptHashAddrIDs = @ \cup {p.ScriptHashAddrID}]
        nets == [ids EXCEPT !.registeredNets = @ \cup {p.Net}]
        hd == RegisterHDKeyID(nets, p.HDPublicKeyID, p.HDPrivateKeyID)
    IN  IF p.Net \in reg.registeredNets
        THEN [reg |-> ids, err |-> "ErrDuplicateNet"]
        ELSE IF hd.err # "nil" THEN hd
        ELSE [reg |-> [hd.reg EXCEPT
                       !.bech32SegwitPrefixes =
                           @ \cup {p.Bech32HRPSegwit \o <<"1">>},
                       !.bech32MwebPrefixes =
                           @ \cup {p.Bech32HRPMweb \o <<"1">>}],
              err |-> "nil"]

Register(reg, p) ==
    LET ids == [reg EXCEPT
                !.registeredNets = @ \cup {p.Net},
                !.pubKeyHashAddrIDs = @ \cup {p.PubKeyHashAddrID},
                !.scriptHashAddrIDs = @ \cup {p.ScriptHashAddrID}]
        hd == RegisterHDKeyID(ids, p.HDPublicKeyID, p.HDPrivateKeyID)
    IN  IF p.Net \in reg.registeredNets
        THEN [reg |-> reg, err |-> "ErrDuplicateNet"]
        ELSE IF hd.err # "nil" THEN hd
        ELSE [reg |-> [hd.reg EXCEPT
                       !.bech32SegwitPrefixes =
                           @ \cup {p.Bech32HRPSegwit \o <<"1">>},
                       !.bech32MwebPrefixes =
                           @ \cup {p.Bech32HRPMweb \o <<"1">>}],
              err |-> "nil"]

\* mustRegister: Register, the error (a panic at start-up) dropped
mustRegister(reg, p) == Register(reg, p).reg

\* the registries when init() has run
DefaultRegistries ==
    mustRegister(mustRegister(mustRegister(mustRegister(NoRegistries,
        MainNetParams), TestNet4Params), RegressionNetParams), SimNetParams)

\* the six maps as one registry value
Registries ==
    [registeredNets |-> registeredNets,
     pubKeyHashAddrIDs |-> pubKeyHashAddrIDs,
     scriptHashAddrIDs |-> scriptHashAddrIDs,
     bech32SegwitPrefixes |-> bech32SegwitPrefixes,
     bech32MwebPrefixes |-> bech32MwebPrefixes,
     hdPrivToPubKeyIDs |-> hdPrivToPubKeyIDs]

\* the maps hold the registry value reg
RegistriesAre(reg) ==
    /\ registeredNets = reg.registeredNets
    /\ pubKeyHashAddrIDs = reg.pubKeyHashAddrIDs
    /\ scriptHashAddrIDs = reg.scriptHashAddrIDs
    /\ bech32SegwitPrefixes = reg.bech32SegwitPrefixes
    /\ bech32MwebPrefixes = reg.bech32MwebPrefixes
    /\ hdPrivToPubKeyIDs = reg.hdPrivToPubKeyIDs

NoRegister == [params |-> NoValue, err |-> "none", before |-> NoRegistries]

\* a network a main package defines
NetParams(net, addrID, hdPrivateKeyID, hdPublicKeyID, hrp) ==
    [MainNetParams EXCEPT
     !.Name = net,
     !.Net = net,
     !.Bech32HRPSegwit = hrp,
     !.Bech32HRPMweb = hrp \o <<"m", "w", "e", "b">>,
     !.PubKeyHashAddrID = addrID,
     !.ScriptHashAddrID = addrID + 1,
     !.HDPrivateKeyID = hdPrivateKeyID,
     !.HDPublicKeyID = hdPublicKeyID]

\* the parameters Register is called with: the default networks, the signet
\* and networks of the caller, two of them with the same Net and one with
\* the main network's private HD key ID
RegisterInputs ==
    {MainNetParams, TestNet4Params, RegressionNetParams, SimNetParams,
     SigNetParams,
     NetParams("Net1", 48, <<1, 2, 3, 4>>, <<5, 6, 7, 8>>, <<"x">>),
     NetParams("Net1", 58, <<1, 2, 3, 9>>, <<5, 6, 7, 9>>, <<"y">>),
     NetParams("Net2", 30, <<4, 136, 173, 228>>, <<9, 9, 9, 9>>, <<"d", "s", "v">>),
     NetParams("Net3", 68, <<1, 2, 3, 4>>, <<5, 6, 7, 8>>, <<"z">>)}

\* Register(&p)
CallRegister(p) ==
    LET r == Register(Registries, p)
    IN  /\ registeredNets' = r.reg.registeredNets
        /\ pubKeyHashAddrIDs' = r.reg.pubKeyHashAddrIDs
        /\ scriptHashAddrIDs' = r.reg.scriptHashAddrIDs
        /\ bech32SegwitPrefixes' = r.reg.bech32SegwitPrefixes
        /\ bech32MwebPrefixes' = r.reg.bech32MwebPrefixes
        /\ hdPrivToPubKeyIDs' = r.reg.hdPrivToPubKeyIDs
        /\ registered' = [params |-> p, err |-> r.err, before |-> Registries]

\* the package is initialised and Register has not been called since
RegInit == RegistriesAre(DefaultRegistries) /\ registered = NoRegister

-----------------------------------------------------------------------------
(* Specifications                                                           *)

Init == ChainInit /\ CodecIdle /\ WorkIdle /\ LockIdle /\ RegInit /\ SplitIdle
    /\ FrameIdle

Next ==
    \/ \E step \in TimeSteps, bits \in HeaderBits(params) :
           AddHeader(step, bits)
           /\ UNCHANGED <<codecVars, workVars, lockVars, regVars, splitVars, frameVars>>
    \/ \E delay \in NewBlockDelays :
           CalcNext(TipTime + params.MinDiffReductionTime + delay)
           /\ UNCHANGED <<codecVars, workVars, lockVars, regVars, splitVars, frameVars>>

Spec == Init /\ [][Next]_vars

\* the variables a codec or CalcWork call does not touch
codecFrame == <<chainVars, lockVars, regVars, splitVars, frameVars>>

\* no chain is looked at
ChainIdle ==
    /\ params = MainNetParams /\ base = 0 /\ spare = 0 /\ chain = <<>>
    /\ call = NoCall /\ result = NoResult

CodecNext ==
    \/ CallCompactToBig /\ UNCHANGED <<codecFrame, workVars>>
    \/ CallBigToCompact /\ UNCHANGED <<codecFrame, workVars>>
    \/ EncodeDecoded /\ UNCHANGED <<codecFrame, workVars>>
    \/ DecodeEncoded /\ UNCHANGED <<codecFrame, workVars>>
    \/ EncodeAgain /\ UNCHANGED <<codecFrame, workVars>>

CodecStart == ChainIdle /\ CodecInit /\ WorkIdle /\ LockIdle /\ RegInit /\ SplitIdle
    /\ FrameIdle

SpecCodec == CodecStart /\ [][CodecNext]_vars

WorkNext == CallCalcWork /\ UNCHANGED <<codecFrame, codecVars>>

WorkStart == ChainIdle /\ CodecIdle /\ WorkInit /\ LockIdle /\ RegInit /\ SplitIdle
    /\ FrameIdle

SpecWork == WorkStart /\ [][WorkNext]_vars

LockNext ==
    \/ \E step \in TimeSteps, bits \in HeaderBits(params) :
           ConnectHeader(step, bits)
           /\ UNCHANGED <<codecVars, workVars, regVars, splitVars, frameVars>>
    \/ \E p \in Callers :
           Lock(p) /\ UNCHANGED <<codecVars, workVars, regVars, splitVars, frameVars>>
    \/ \E p \in Callers :
           Dispatch(p, TipTime + params.TargetTimePerBlock)
           /\ UNCHANGED <<codecVars, workVars, regVars, splitVars, frameVars>>
    \/ \E p \in Callers :
           Unlock(p) /\ UNCHANGED <<codecVars, workVars, regVars, splitVars, frameVars>>
    \/ \E p \in Callers :
           Return(p) /\ UNCHANGED <<codecVars, workVars, regVars, splitVars, frameVars>>

LockStart == LockChainInit /\ CodecIdle /\ WorkIdle /\ LockIdle /\ RegInit /\ SplitIdle
    /\ FrameIdle

SpecLock == LockStart /\ [][LockNext]_vars

RegisterNext ==
    \E p \in RegisterInputs :
        CallRegister(p)
        /\ UNCHANGED <<chainVars, codecVars, workVars, lockVars, splitVars, frameVars>>

RegisterStart == ChainIdle /\ CodecIdle /\ WorkIdle /\ LockIdle /\ RegInit /\ SplitIdle
    /\ FrameIdle

SpecRegister == RegisterStart /\ [][RegisterNext]_vars

FrameNext ==
    \/ \E step \in FrameSteps :
           FrameAddHeader(step)
           /\ UNCHANGED <<codecVars, workVars, lockVars, regVars, splitVars>>
    \/ \E delay \in NewBlockDelays :
           FrameCalcNext(TipTime + params.MinDiffReductionTime + delay)
           /\ UNCHANGED <<codecVars, workVars, lockVars, regVars, splitVars>>
    \/ \E bits \in FrameBits, durationVal \in FrameDurations :
           FrameCalcEasiest(bits, durationVal)
           /\ UNCHANGED <<codecVars, workVars, lockVars, regVars, splitVars>>
    \/ \E compact \in FrameBits :
           FrameCompactToBig(compact)
           /\ UNCHANGED <<codecVars, workVars, lockVars, regVars, splitVars>>
    \/ FrameBigToCompact
           /\ UNCHANGED <<codecVars, workVars, lockVars, regVars, splitVars>>
    \/ FrameEncodePowLimit
           /\ UNCHANGED <<codecVars, workVars, lockVars, regVars, splitVars>>
    \/ \E bits \in FrameBits :
           FrameCalcWork(bits)
           /\ UNCHANGED <<codecVars, workVars, lockVars, regVars, splitVars>>

FrameStart ==
    FrameInit /\ CodecIdle /\ WorkIdle /\ LockIdle /\ RegInit /\ SplitIdle

SpecFrame == FrameStart /\ [][FrameNext]_vars

GrowNext ==
    \/ \E step \in GrowSteps :
           GrowHeader(step)
           /\ UNCHANGED <<codecVars, workVars, lockVars, regVars, splitVars, frameVars>>
    \/ GrowCalcNext
           /\ UNCHANGED <<codecVars, workVars, lockVars, regVars, splitVars, frameVars>>

GrowStart ==
    GrowInit /\ CodecIdle /\ WorkIdle /\ LockIdle /\ RegInit /\ SplitIdle
    /\ FrameIdle

SpecGrow == GrowStart /\ [][GrowNext]_vars

SplitNext ==
    SplitExponent
    /\ UNCHANGED <<chainVars, codecVars, workVars, lockVars, regVars, frameVars>>

SplitStart == ChainIdle /\ CodecIdle /\ WorkIdle /\ LockIdle /\ RegInit /\ SplitInit
    /\ FrameIdle

SpecSplit == SplitStart /\ [][SplitNext]_vars

-----------------------------------------------------------------------------
(* Properties of the dispatcher: what the last call returned                *)

\* a call was made with a header as lastNode
CalledOn == call.lastNode > 0

\* h + 1 for the lastNode of the call
NextHeight == Height(Ctx, call.lastNode) + 1

\* the algorithm the dispatch rules give the height next
RuleFor(p, next) ==
    IF p.ASERTHeight > 0 /\ next > p.ASERTHeight THEN "ASERT"
    ELSE IF p.LWMAFixHeight > 0 /\ next >= p.LWMAFixHeight THEN "LWMAv2"
    ELSE IF p.LWMAHeight > 0 /\ next >= p.LWMAHeight THEN "LWMA"
    ELSE "legacy"

\* the call went to the legacy algorithm
OnLegacy ==
    /\ CalledOn /\ ~params.PoWNoRetargeting
    /\ RuleFor(params, NextHeight) = "legacy"

\* ... at a retarget boundary
OnRetarget == OnLegacy /\ NextHeight % BlocksPerRetarget(Ctx) = 0

\* C1: with retargeting on and a lastNode of height h, the algorithm used for
\* next = h+1 is the first that matches of: ASERT (ASERTHeight > 0, next >
\* ASERTHeight), LWMA v2 (LWMAFixHeight > 0, next >= LWMAFixHeight), LWMA v1
\* (LWMAHeight > 0, next >= LWMAHeight), legacy; the block at ASERTHeight is
\* not computed by ASERT and an activation height of 0 selects nothing.
C1_DispatchOrder ==
    (CalledOn /\ ~params.PoWNoRetargeting) =>
        /\ result.algo = RuleFor(params, NextHeight)
        /\ NextHeight = params.ASERTHeight => result.algo # "ASERT"
        /\ params.ASERTHeight = 0 => result.algo # "ASERT"
        /\ params.LWMAFixHeight = 0 => result.algo # "LWMAv2"
        /\ params.LWMAHeight = 0 => result.algo # "LWMA"

\* ASERT was used at a height where LWMA v2 matches too
C1_Witness ==
    /\ CalledOn /\ ~params.PoWNoRetargeting
    /\ result.algo = "ASERT"
    /\ params.LWMAFixHeight > 0 /\ NextHeight >= params.LWMAFixHeight

\* C2: with PoWNoRetargeting, or without a lastNode, the call returns
\* PowLimitBits and no error, and no algorithm is reached.
C2_NoRetargeting ==
    (call # NoCall /\ (params.PoWNoRetargeting \/ call.lastNode = NilNode)) =>
        /\ result.kind = "ok"
        /\ result.bits = params.PowLimitBits
        /\ result.algo = "none"

\* a no-retargeting network asked past its ASERT activation height
C2_Witness ==
    /\ params.PoWNoRetargeting /\ CalledOn
    /\ params.ASERTHeight > 0 /\ NextHeight > params.ASERTHeight
    /\ result.kind = "ok" /\ result.bits = params.PowLimitBits

\* C3: whenever the call returns without error, the returned bits decode to
\* at most PowLimit.
C3_WithinPowLimit ==
    (call # NoCall /\ result.kind = "ok") =>
        BigLeq(CompactToBig(result.bits), params.PowLimit)

\* the generations between lastNode and the ancestor a legacy retarget needs
WindowDistance ==
    IF NextHeight = BlocksPerRetarget(Ctx) THEN BlocksPerRetarget(Ctx) - 1
    ELSE BlocksPerRetarget(Ctx)

\* an ancestor the selected algorithm requires is not in the storage
MissingAncestor ==
    \/ OnRetarget /\ call.lastNode - WindowDistance < 1
    \/ /\ CalledOn /\ ~params.PoWNoRetargeting
       /\ RuleFor(params, NextHeight) = "ASERT"
       /\ base >= params.ASERTHeight

\* C4: whenever an ancestor an algorithm requires is missing (the legacy
\* window start, the parent of the ASERT anchor, the anchor itself), the call
\* returns an AssertError with bits 0.
C4_MissingAncestor ==
    MissingAncestor => result.kind = "AssertError" /\ result.bits = CompactZero

\* C5 as stated: at a legacy retarget the first node of the window is
\* BlocksPerRetarget - 1 generations before lastNode, and BlocksPerRetarget
\* generations before it on the first retarget.
C5_AsStated ==
    (OnRetarget /\ result.kind = "ok") =>
        result.firstNode = call.lastNode -
            (IF NextHeight = BlocksPerRetarget(Ctx)
             THEN BlocksPerRetarget(Ctx) ELSE BlocksPerRetarget(Ctx) - 1)

\* C5 amended: at a legacy retarget the first node of the window is
\* BlocksPerRetarget generations before lastNode, and BlocksPerRetarget - 1
\* generations before it (the genesis header) on the first retarget; the call
\* fails with AssertError exactly when that ancestor is not stored.
C5_WindowStart ==
    OnRetarget =>
        IF call.lastNode - WindowDistance >= 1
        THEN /\ result.kind = "ok"
             /\ result.firstNode = call.lastNode - WindowDistance
             /\ Height(Ctx, result.firstNode) = NextHeight - 1 - WindowDistance
        ELSE result.kind = "AssertError"

\* the first retarget, whose window starts at the genesis header
C5_Witness ==
    /\ OnRetarget /\ result.kind = "ok"
    /\ NextHeight = BlocksPerRetarget(Ctx)
    /\ Height(Ctx, result.firstNode) = 0
    /\ result.firstNode = call.lastNode - (BlocksPerRetarget(Ctx) - 1)

\* the target of lastNode
OldTarget == CompactToBig(Bits(Ctx, call.lastNode))

\* a legacy retarget of a positive target that found its window
Retargeted == OnRetarget /\ result.kind = "ok" /\ BigSign(OldTarget) > 0

\* the bits are the encoding of the target capped to PowLimit
CappedAndEncoded ==
    result.bits = BigToCompact(IF BigLeq(result.target, params.PowLimit)
                               THEN result.target ELSE params.PowLimit)

C7_OffRetarget ==
    (OnLegacy /\ ~OnRetarget /\ ~params.ReduceMinDifficulty) =>
        result.kind = "ok" /\ result.bits = Bits(Ctx, call.lastNode)

\* bits above PowLimit are passed through
C7_Witness ==
    /\ OnLegacy /\ ~OnRetarget /\ ~params.ReduceMinDifficulty
    /\ ~BigLeq(OldTarget, params.PowLimit)
    /\ result.bits = Bits(Ctx, call.lastNode)

\* the headers from lastNode back that end the search for the difficulty
\* before the minimum-difficulty rule: at a retarget height, or other bits
SearchEnds ==
    {node \in 1..call.lastNode :
        \/ Height(Ctx, node) % BlocksPerRetarget(Ctx) = 0
        \/ Bits(Ctx, node) # params.PowLimitBits}

\* C8: on the legacy algorithm with ReduceMinDifficulty, off a retarget
\* boundary: PowLimitBits when the new block is more than
\* MinDiffReductionTime after lastNode; else the bits of the nearest header,
\* from lastNode back, at a retarget height or with bits other than
\* PowLimitBits, and PowLimitBits if there is none.
C8_MinDifficulty ==
    (OnLegacy /\ ~OnRetarget /\ params.ReduceMinDifficulty) =>
        /\ result.kind = "ok"
        /\ result.bits =
              IF call.newBlockTime - Timestamp(Ctx, call.lastNode)
                     > params.MinDiffReductionTime
              THEN params.PowLimitBits
              ELSE IF SearchEnds = {} THEN params.PowLimitBits
              ELSE Bits(Ctx, Max(SearchEnds))

\* exactly MinDiffReductionTime later, the search walks to a parent whose
\* bits are not PowLimitBits
C8_Witness ==
    /\ OnLegacy /\ ~OnRetarget /\ params.ReduceMinDifficulty
    /\ call.newBlockTime - Timestamp(Ctx, call.lastNode)
           = params.MinDiffReductionTime
    /\ SearchEnds # {} /\ Max(SearchEnds) < call.lastNode
    /\ result.bits # params.PowLimitBits

\* the stored chain is well formed: it starts at the genesis header, of
\* height 0 and without a parent
WellFormed == base = 0

\* C27: on a well-formed chain the legacy retarget never returns AssertError:
\* at every retarget boundary the window-start ancestor exists, the genesis
\* header at the first retarget (h+1 = BlocksPerRetarget) and the header of
\* height h - BlocksPerRetarget afterwards.
C27_AncestorExists ==
    (OnRetarget /\ WellFormed) =>
        /\ result.kind = "ok"
        /\ result.firstNode # NilNode
        /\ Height(Ctx, result.firstNode) =
               IF NextHeight = BlocksPerRetarget(Ctx) THEN 0
               ELSE NextHeight - 1 - BlocksPerRetarget(Ctx)

\* the second retarget of a chain stored from the genesis header on
C27_Witness ==
    /\ OnRetarget /\ WellFormed /\ result.kind = "ok"
    /\ NextHeight = 2 * BlocksPerRetarget(Ctx)
    /\ Height(Ctx, result.firstNode) = BlocksPerRetarget(Ctx) - 1

\* the new block's timestamp cannot matter: the call is not on the legacy
\* algorithm off a retarget boundary with ReduceMinDifficulty
TimeBlind ==
    \/ params.PoWNoRetargeting
    \/ call.lastNode = NilNode
    \/ RuleFor(params, NextHeight) # "legacy"
    \/ NextHeight % BlocksPerRetarget(Ctx) = 0
    \/ ~params.ReduceMinDifficulty

\* other timestamps the new block could have had: before lastNode, on both
\* sides of the minimum-difficulty threshold and far later
OtherTimes ==
    {TipTime - 1, TipTime + params.MinDiffReductionTime,
     TipTime + params.MinDiffReductionTime + 1, TipTime + 100000}

\* C28: two calls that differ only in newBlockTime return the same bits and
\* error when PoWNoRetargeting is set, lastNode is absent, LWMA v1, LWMA v2 or
\* ASERT is selected, h+1 is a legacy retarget boundary, or
\* ReduceMinDifficulty is false.
C28_TimeIgnored ==
    (call # NoCall /\ TimeBlind) =>
        \A t \in OtherTimes :
            LET other == calcNextRequiredDifficulty(call.lastNode, t, Ctx)
            IN  other.kind = result.kind /\ other.bits = result.bits

\* ReduceMinDifficulty is set, but LWMA or ASERT is selected: the threshold
\* is passed and the bits are not PowLimitBits
C28_Witness ==
    /\ CalledOn /\ TimeBlind /\ params.ReduceMinDifficulty
    /\ ~params.PoWNoRetargeting
    /\ RuleFor(params, NextHeight) # "legacy"
    /\ call.newBlockTime > TipTime + params.MinDiffReductionTime
    /\ result.kind = "ok" /\ result.bits # params.PowLimitBits

\* on the legacy algorithm off a boundary with ReduceMinDifficulty the
\* timestamp does decide
C28_WitnessDecides ==
    /\ OnLegacy /\ ~TimeBlind /\ result.kind = "ok"
    /\ \E t \in OtherTimes :
           calcNextRequiredDifficulty(call.lastNode, t, Ctx).bits # result.bits

\* the parameter sets the code ships
Shipped ==
    {MainNetParams, RegressionNetParams, TestNet4Params, SimNetParams,
     SigNetParams}

\* C26: for every parameter set shipped with the code,
\* CompactToBig(PowLimitBits) <= PowLimit, so the PowLimitBits the dispatcher
\* returns is a target within the network's limit.
C26_PowLimitBits ==
    (params \in Shipped /\ call # NoCall /\ result.kind = "ok") =>
        BigLeq(CompactToBig(params.PowLimitBits), params.PowLimit)

-----------------------------------------------------------------------------
(* Properties of ASERT                                                      *)

\* the call went to ASERT
OnASERT ==
    /\ CalledOn /\ ~params.PoWNoRetargeting
    /\ RuleFor(params, NextHeight) = "ASERT"

\* the stored header at height ASERTHeight - 1, or less than 1 if not stored
AnchorParentNode == params.ASERTHeight - base

\* other bits than b
OtherBits(b) ==
    IF b = params.ASERTAnchorBits THEN params.PowLimitBits
    ELSE params.ASERTAnchorBits

\* the chains that differ from the stored one in one header: in its bits, or
\* in its timestamp if it is neither lastNode nor the anchor's parent
Relabellings ==
    {[chain EXCEPT ![i].bits = OtherBits(@)] : i \in 1..Len(chain)} \cup
    {[chain EXCEPT ![i].timestamp = @ + d] :
        i \in 1..Len(chain) \ {call.lastNode, AnchorParentNode},
        d \in {-1000, 7}}

\* C13: the ASERT result depends only on lastNode's timestamp and height, on
\* the timestamp of the parent of the block at ASERTHeight and on the
\* parameters: a chain that differs in the timestamp or bits of any other
\* block, or in the bits of the anchor block or of lastNode, gives the same
\* result.
C13_ASERTDependsOn ==
    OnASERT =>
        \A alt \in Relabellings :
            LET r == calcNextRequiredDifficulty(call.lastNode, call.newBlockTime,
                                                [Ctx EXCEPT !.hdrs = alt])
            IN  r.kind = result.kind /\ r.bits = result.bits

\* ASERT answered on a chain with a block between the anchor's parent and
\* lastNode, whose anchor block does not carry ASERTAnchorBits
C13_Witness ==
    /\ OnASERT /\ result.kind = "ok"
    /\ AnchorParentNode >= 1
    /\ call.lastNode >= AnchorParentNode + 2
    /\ Bits(Ctx, AnchorParentNode + 1) # params.ASERTAnchorBits
    /\ Bits(Ctx, call.lastNode) # params.ASERTAnchorBits
    /\ Relabellings # {}

\* seconds lastNode is behind the schedule: dt - T * dh
Deviation ==
    (Timestamp(Ctx, call.lastNode) - Timestamp(Ctx, AnchorParentNode))
        - params.TargetTimePerBlock * (NextHeight - params.ASERTHeight)

\* ASERT answered, a whole number of half-lives off the schedule
OnHalfLives ==
    /\ OnASERT /\ result.kind = "ok"
    /\ Deviation % params.ASERTHalfLife = 0

\* the number of half-lives behind the schedule
HalfLives == Deviation \div params.ASERTHalfLife

AnchorTarget == CompactToBig(params.ASERTAnchorBits)

\* target * 2^k, shifted right by -k bits for a negative k
TimesPow2(target, k) ==
    IF k >= 0 THEN BigLsh(target, k) ELSE BigRsh(target, -k)

HalfLifeTarget ==
    LET shifted == TimesPow2(AnchorTarget, HalfLives)
    IN  IF BigSign(shifted) = 0 THEN bigOne ELSE shifted

C14_WitnessAhead ==
    /\ OnHalfLives /\ HalfLives < 0 /\ HalfLives > -256
    /\ BigSign(TimesPow2(AnchorTarget, HalfLives)) > 0
    /\ result.target = TimesPow2(AnchorTarget, HalfLives)

\* C15: with a positive anchor target and a PowLimit of at least 1, every
\* compact value ASERT returns decodes to a target of at least 1, whatever
\* the time and height differences: a computed target of 0 is replaced by 1
\* and a right shift of 256 bits or more returns encode(1).
C15_AtLeastOne ==
    (OnASERT /\ result.kind = "ok"
        /\ BigSign(AnchorTarget) > 0 /\ BigSign(params.PowLimit) > 0) =>
        /\ BigSign(CompactToBig(result.bits)) > 0
        /\ BigSign(result.target) > 0
        /\ Deviation \div params.ASERTHalfLife < -256 =>
               result.bits = BigToCompact(bigOne)

\* fewer than 256 half-lives ahead of the schedule, the anchor target is
\* shifted to 0 and the result is encode(1)
C15_Witness ==
    /\ OnASERT /\ result.kind = "ok"
    /\ Deviation \div params.ASERTHalfLife > -256
    /\ Deviation < 0
    /\ result.target = bigOne
    /\ result.bits = Compact(1, 65536)
    /\ CompactToBig(result.bits) = bigOne

\* the exponent has been split
SplitDone == splitOut # NoValue

\* |shifts| as a magnitude
ShiftsMag(shifts) ==
    IF shifts = MinInt32 THEN <<128, 0, 0, 0>>
    ELSE IF shifts < 0 THEN NatToMag(-shifts) ELSE NatToMag(shifts)

\* shifts * 65536 + frac
Recomposed(shifts, frac) ==
    IF shifts >= 0
    THEN Big(FALSE, Strip(MagAdd(ShiftsMag(shifts) \o <<0, 0>>, NatToMag(frac))))
    ELSE Big(TRUE, MagSub(ShiftsMag(shifts) \o <<0, 0>>, NatToMag(frac)))

\* C21: ASERT splits every exponent into shifts and frac with
\* shifts * 65536 + frac = exponent and 0 <= frac < 65536, so shifts is the
\* floor of exponent / 65536, for negative exponents too
C21_SplitFloor ==
    SplitDone =>
        /\ splitOut.frac \in 0..65535
        /\ Recomposed(splitOut.shifts, splitOut.frac) = exponentIn

\* 195766423245049*f + 971821376*f^2 + 5127*f^3 + 2^47, not reduced
Cubic(f) ==
    MagAdd(MagAdd(MagAdd(MagMulSmall(<<178, 12, 108, 29, 208, 249>>, f),
                         MagMulSmall(MagMulSmall(NatToMag(971821376), f), f)),
                  MagMulSmall(MagMulSmall(MagMulSmall(NatToMag(5127), f), f), f)),
           <<128, 0, 0, 0, 0, 0>>)

\* C22: for every frac the cubic is below 2^64, so the uint64 evaluation is
\* the cubic itself, and the factor 65536 + (sum >> 48) is in
\* [65536, 131071], 65536 at frac 0
C22_CubicFits ==
    SplitDone =>
        LET f == splitOut.frac
        IN  /\ MagCmp(Cubic(f), <<1>> \o Zeros(8)) < 0
            /\ f > 0 => splitOut.sum = Cubic(f)
            /\ f > 0 => splitOut.factor = 65536 + MagToNat(MagRsh(Cubic(f), 48))
            /\ splitOut.factor \in 65536..131071
            /\ f = 0 => splitOut.factor = 65536

\* the largest frac gives the largest factor
C22_Witness ==
    SplitDone /\ splitOut.frac = 65535 /\ splitOut.factor = 131071

-----------------------------------------------------------------------------
(* Properties of LWMA                                                       *)

\* the call went to LWMA v1 or v2 and the window has at least 3 blocks
OnLWMA(algo) ==
    /\ CalledOn /\ ~params.PoWNoRetargeting
    /\ RuleFor(params, NextHeight) = algo
    /\ LWMABlocks(call.lastNode, Ctx) >= 3

\* the headers whose solvetime the walk samples: those of the window that
\* have a stored parent
Sampled ==
    {node \in 2..call.lastNode :
        node > call.lastNode - LWMABlocks(call.lastNode, Ctx)}

\* every sampled solvetime is the target time per block
Steady ==
    \A node \in Sampled :
        Timestamp(Ctx, node) - Timestamp(Ctx, node - 1)
            = params.TargetTimePerBlock

\* the header the window starts at, if it is stored
WindowStartNode == call.lastNode - LWMABlocks(call.lastNode, Ctx)

\* C16: LWMA v2 with at least 3 blocks in the window, every sampled
\* solvetime equal to T and a reference target within PowLimit returns
\* BigToCompact(CompactToBig(windowStart.bits)), windowStart being the header
\* blocks parents before lastNode.
C16_FixedPoint ==
    (OnLWMA("LWMAv2") /\ WindowStartNode >= 1 /\ Steady
        /\ BigLeq(CompactToBig(Bits(Ctx, WindowStartNode)), params.PowLimit)) =>
        /\ result.kind = "ok"
        /\ result.bits = BigToCompact(CompactToBig(Bits(Ctx, WindowStartNode)))

\* a steady window whose start carries other bits than lastNode
C16_Witness ==
    /\ OnLWMA("LWMAv2") /\ WindowStartNode >= 1 /\ Steady
    /\ Cardinality(Sampled) = 3
    /\ Bits(Ctx, WindowStartNode) # Bits(Ctx, call.lastNode)
    /\ result.bits = BigToCompact(CompactToBig(Bits(Ctx, WindowStartNode)))

\* the sums of the walk of the call
Sums == LWMASums(Ctx, call.lastNode, LWMABlocks(call.lastNode, Ctx), 0, 0)

\* expectedWeightedSolvetimes of the call
Expected == Sums.sumWeights * params.TargetTimePerBlock

\* the target the calculation starts from: lastNode's for LWMA v1, the
\* window start's (the oldest stored header if the window is cut) for v2
StartTarget(algo) ==
    IF algo = "LWMA" THEN CompactToBig(Bits(Ctx, call.lastNode))
    ELSE CompactToBig(Bits(Ctx, IF WindowStartNode >= 1 THEN WindowStartNode
                                ELSE 1))

\* the cap of one calculation
CapOf(algo) == IF algo = "LWMA" THEN 10 ELSE 3

\* an LWMA calculation from a positive target that returned a value
Averaged(algo) ==
    OnLWMA(algo) /\ result.kind = "ok" /\ BigSign(StartTarget(algo)) > 0

C17_WitnessV2 ==
    /\ Averaged("LWMAv2")
    /\ Sums.sumWeightedSolvetimes > Expected * 3
    /\ result.target = BigMulInt(StartTarget("LWMAv2"), 3)

\* the walk of the call meets a missing parent before the window is full
WalkCut == call.lastNode - LWMABlocks(call.lastNode, Ctx) < 1

\* C19: in LWMA v1 and v2 with at least 3 blocks, when the backward walk
\* meets a missing parent at any step (lastNode without a parent included),
\* the call returns a value computed from the sums so far, with no error and
\* no crash.
C19_WalkStopsEarly ==
    \A algo \in {"LWMA", "LWMAv2"} :
        (OnLWMA(algo) /\ WalkCut) =>
            /\ result.kind = "ok"
            /\ Expected > 0

\* the weight of a sampled header's solvetime: blocks for lastNode, one less
\* for each parent
WeightOf(node) == LWMABlocks(call.lastNode, Ctx) - (call.lastNode - node)

\* the solvetime of a sampled header
Solvetime(node) == Timestamp(Ctx, node) - Timestamp(Ctx, node - 1)

\* the solvetime within [1, 6*T]
Within(node) ==
    LET st == Solvetime(node)
        T == params.TargetTimePerBlock
    IN  IF st < 1 THEN 1 ELSE IF st > 6 * T THEN 6 * T ELSE st

\* the sum of weight * term over the sampled headers
RECURSIVE WeightedSum(_, _)
WeightedSum(nodes, clamped) ==
    IF nodes = {} THEN 0
    ELSE LET node == CHOOSE n \in nodes : TRUE
         IN  WeightOf(node) * (IF clamped THEN Within(node) ELSE 1)
             + WeightedSum(nodes \ {node}, clamped)

\* C24: in LWMA v1 and v2 every solvetime is clamped to [1, 6*T] before it
\* is weighted, whatever the timestamps: sumWeights <= sumWeightedSolvetimes
\* <= 6*T*sumWeights, the weights being blocks, blocks-1, ... from the most
\* recent solvetime back, down to 1 when the whole window is stored.
C24_SolvetimesClamped ==
    \A algo \in {"LWMA", "LWMAv2"} :
        OnLWMA(algo) =>
            /\ Sums.sumWeights = WeightedSum(Sampled, FALSE)
            /\ Sums.sumWeightedSolvetimes = WeightedSum(Sampled, TRUE)
            /\ Sums.sumWeights <= Sums.sumWeightedSolvetimes
            /\ Sums.sumWeightedSolvetimes
                   <= 6 * params.TargetTimePerBlock * Sums.sumWeights
            /\ ~WalkCut => {WeightOf(node) : node \in Sampled}
                               = 1..LWMABlocks(call.lastNode, Ctx)

\* a whole window with a child earlier than its parent and a gap above 6*T
C24_Witness ==
    /\ OnLWMA("LWMA") /\ ~WalkCut /\ result.kind = "ok"
    /\ \E node \in Sampled : Solvetime(node) < 0
    /\ \E node \in Sampled : Solvetime(node) > 6 * params.TargetTimePerBlock

\* the same in LWMA v2
C24_WitnessV2 ==
    /\ OnLWMA("LWMAv2") /\ ~WalkCut /\ result.kind = "ok"
    /\ \E node \in Sampled : Solvetime(node) < 0
    /\ \E node \in Sampled : Solvetime(node) > 6 * params.TargetTimePerBlock

-----------------------------------------------------------------------------
(* Properties of the growing chain                                          *)

\* the algorithm the dispatcher selects for the block after the last of hdrs
SelectedOn(hdrs) ==
    calcNextRequiredDifficulty(
        Len(hdrs), IF hdrs = <<>> THEN 0 ELSE hdrs[Len(hdrs)].timestamp,
        [params |-> params, base |-> base, hdrs |-> hdrs]).algo

Selected == SelectedOn(chain)

\* the order the algorithms were introduced in
Rank(algo) ==
    CASE algo = "none" -> 0
      [] algo = "legacy" -> 1
      [] algo = "LWMA" -> 2
      [] algo = "LWMAv2" -> 3
      [] algo = "ASERT" -> 4

\* the activation heights are all 0 or in the order of the algorithms
HeightsOrdered ==
    \/ params.LWMAHeight = 0 /\ params.LWMAFixHeight = 0
       /\ params.ASERTHeight = 0
    \/ /\ params.ASERTHeight > params.LWMAFixHeight
       /\ params.LWMAFixHeight > params.LWMAHeight
       /\ params.LWMAHeight > 0

\* the range of next-block heights each algorithm has
RangeOf(next) ==
    IF params.ASERTHeight > 0 /\ next >= params.ASERTHeight + 1 THEN "ASERT"
    ELSE IF params.LWMAFixHeight > 0 /\ next >= params.LWMAFixHeight
         THEN "LWMAv2"
    ELSE IF params.LWMAHeight > 0 /\ next >= params.LWMAHeight THEN "LWMA"
    ELSE "legacy"

\* the selected algorithm is the one whose range the next height is in
InRangeOn(hdrs) ==
    Len(hdrs) > 0 => SelectedOn(hdrs) = RangeOf(base + Len(hdrs))

\* C30: for every shipped parameter set that retargets, as the chain grows
\* one block at a time the algorithm selected never goes back to an earlier
\* one: legacy, LWMA v1 from LWMAHeight, LWMA v2 from LWMAFixHeight, ASERT
\* from ASERTHeight + 1; the activation heights are all 0 or satisfy
\* ASERTHeight > LWMAFixHeight > LWMAHeight > 0.
C30_NeverGoesBack ==
    [][(params \in Shipped /\ ~params.PoWNoRetargeting) =>
           /\ HeightsOrdered
           /\ \A grown \in {chain'} :
                  /\ InRangeOn(chain) /\ InRangeOn(grown)
                  /\ Rank(SelectedOn(grown)) >= Rank(SelectedOn(chain))]_vars

\* the main network's chain has grown from LWMA v2 into ASERT
C30_Witness ==
    /\ params = MainNetParams /\ Len(chain) = 3
    /\ Height(Ctx, Tip) = params.ASERTHeight
    /\ Selected = "ASERT" /\ result.algo = "ASERT" /\ result.kind = "ok"

-----------------------------------------------------------------------------
(* Properties of the package as a whole                                     *)

\* C25: whatever calls of calcNextRequiredDifficulty, calcEasiestDifficulty,
\* CompactToBig, BigToCompact and CalcWork are made, each leaves the network
\* parameters (PowLimit among them), every header of the chain and the big
\* integer the caller passed as they were, and a call repeated with the same
\* inputs returns the same result.
C25_NothingMutated ==
    [][/\ params' = params
       /\ Len(chain') >= Len(chain)
       /\ \A i \in 1..Len(chain) : chain'[i] = chain[i]
       /\ callerBig' = callerBig
       /\ (did'.op = did.op /\ did'.in = did.in) => did'.out = did.out]_vars

\* ASERT has encoded params.PowLimit itself, a number longer than 3 bytes,
\* and the caller holds one too
C25_Witness ==
    /\ did.op = "calcNextRequiredDifficulty" /\ result.kind = "ok"
    /\ result.encoded = "PowLimit" /\ Len(params.PowLimit.mag) > 3
    /\ Len(callerBig.mag) > 3

-----------------------------------------------------------------------------
(* Properties of the chain lock                                             *)

\* the callers inside the dispatcher
Inside == {p \in Callers : pc[p] = "locked"}

\* C18: under any interleaving of the callers, at most one caller is inside
\* the dispatcher at a time, and a caller that took the chain lock has
\* released it when its dispatcher call has ended, whatever the outcome.
C18_LockReleased ==
    /\ Cardinality(Inside) <= 1
    /\ \A p \in Callers :
           pc[p] \in {"idle", "unlocked", "panicked"} => chainLock # p

-----------------------------------------------------------------------------
(* Properties of Register                                                   *)

\* the argument of the last call of Register
Arg == registered.params

\* Register was called
Registered == registered # NoRegister

\* the network p, its address IDs, prefixes and HD key pair are registered
AllRegistered(p) ==
    /\ p.Net \in registeredNets
    /\ p.PubKeyHashAddrID \in pubKeyHashAddrIDs
    /\ p.ScriptHashAddrID \in scriptHashAddrIDs
    /\ (p.Bech32HRPSegwit \o <<"1">>) \in bech32SegwitPrefixes
    /\ (p.Bech32HRPMweb \o <<"1">>) \in bech32MwebPrefixes
    /\ p.HDPrivateKeyID \in DOMAIN hdPrivToPubKeyIDs
    /\ hdPrivToPubKeyIDs[p.HDPrivateKeyID] = p.HDPublicKeyID

\* C20: a call of Register whose Net is already registered, by an earlier
\* call or as a default network, returns ErrDuplicateNet and leaves every
\* registry unchanged; a call with a Net not yet registered returns nil and
\* afterwards the Net, its address IDs, its prefixes and its HD key pair are
\* registered.
C20_Register ==
    Registered =>
        IF Arg.Net \in registered.before.registeredNets
        THEN /\ registered.err = "ErrDuplicateNet"
             /\ Registries = registered.before
        ELSE /\ registered.err = "nil"
             /\ AllRegistered(Arg)

\* a second network with the Net of a registered one of the caller, and
\* other IDs, is refused and none of its IDs is registered
C20_Witness ==
    /\ Registered
    /\ registered.err = "ErrDuplicateNet"
    /\ Arg.Net \notin DefaultRegistries.registeredNets
    /\ Arg.PubKeyHashAddrID \notin pubKeyHashAddrIDs
    /\ Arg.HDPrivateKeyID \notin DOMAIN hdPrivToPubKeyIDs
    /\ Registries = registered.before

-----------------------------------------------------------------------------
(* Properties of the codec                                                  *)

\* canonical as the specification words it: sign clear, mantissa not zero
CanonicalAsStated(compact) ==
    ~CompactIsNegative(compact) /\ CompactMantissa(compact) # 0

\* canonical: sign clear, mantissa at least 0x008000, and no mantissa bit
\* below the unit when the exponent is below 3
Canonical(compact) ==
    /\ ~CompactIsNegative(compact)
    /\ CompactMantissa(compact) >= 32768
    /\ CompactExponent(compact) < 3 =>
          CompactMantissa(compact) % Pow2(8 * (3 - CompactExponent(compact))) = 0

\* C9 as stated: BigToCompact(CompactToBig(x)) = x for every x with the sign
\* bit clear and a mantissa that is not zero, whatever the exponent byte.
C9_AsStated ==
    (codecOp = "CompactToBig,BigToCompact" /\ CanonicalAsStated(codecCompact))
        => codecBack = codecCompact

\* C9 amended: BigToCompact(CompactToBig(x)) = x for every x with the sign
\* bit clear whose mantissa is at least 0x008000 and, when the exponent byte
\* is below 3, has its low 8 * (3 - exponent) bits zero.
C9_RoundTrip ==
    (codecOp = "CompactToBig,BigToCompact" /\ Canonical(codecCompact))
        => codecBack = codecCompact

\* a two-byte mantissa under the largest exponent goes through the sign-bit
\* normalisation and comes back
C9_Witness ==
    /\ codecOp = "CompactToBig,BigToCompact" /\ Canonical(codecCompact)
    /\ CompactMantissa(codecCompact) < 65536
    /\ CompactExponent(codecCompact) = 255
    /\ codecBack = codecCompact

\* C10: CompactToBig(BigToCompact(n)) <= n for every positive n.
C10_NeverRoundsUp ==
    (codecOp = "BigToCompact,CompactToBig" /\ BigSign(codecBig) > 0)
        => BigLeq(codecBack, codecBig)

\* a 256-bit number with the top bit set loses its low bytes
C10_Witness ==
    /\ codecOp = "BigToCompact,CompactToBig" /\ BigSign(codecBig) > 0
    /\ Len(codecBig.mag) = 32 /\ codecBig.mag[1] >= 128
    /\ codecBack # codecBig /\ BigLeq(codecBack, codecBig)

\* a number other than zero was encoded
Encoded ==
    /\ codecOp \in {"BigToCompact", "BigToCompact,CompactToBig",
                    "BigToCompact,CompactToBig,BigToCompact"}
    /\ BigSign(codecBig) # 0

\* the three bytes BigToCompact starts from have the top bit set
TopBitSet == codecBig.mag[1] >= 128

\* C23: BigToCompact(n) has the sign bit set exactly when n is negative: a
\* positive n whose top mantissa byte is at least 0x80 gets the mantissa
\* shifted right by 8 and the exponent incremented, and no positive n is
\* encoded to a compact value that decodes as negative.
C23_SignBit ==
    /\ Encoded => (CompactIsNegative(codecCompact) <=> codecBig.neg)
    /\ (Encoded /\ BigSign(codecBig) > 0 /\ TopBitSet) =>
           /\ CompactExponent(codecCompact) = Len(codecBig.mag) + 1
           /\ CompactMantissa(codecCompact) =
                  codecBig.mag[1] * 256
                  + (IF Len(codecBig.mag) > 1 THEN codecBig.mag[2] ELSE 0)
    /\ (Encoded /\ BigSign(codecBig) > 0 /\ codecBack # NoValue) =>
           BigSign(codecBack) > 0

\* 2^255 and more: the top bit of 32 bytes is set, and the exponent is 33
C23_Witness ==
    /\ Encoded /\ BigSign(codecBig) > 0 /\ TopBitSet
    /\ Len(codecBig.mag) = 32 /\ codecBack # NoValue
    /\ ~CompactIsNegative(codecCompact)
    /\ CompactExponent(codecCompact) = 33

\* C29: BigToCompact(CompactToBig(BigToCompact(n))) = BigToCompact(n) for
\* every integer n.
C29_Canonical ==
    codecOp = "BigToCompact,CompactToBig,BigToCompact"
        => codecAgain = codecCompact

\* a positive n was encoded and decoded again
RoundTripped == codecOp = "BigToCompact,CompactToBig" /\ BigSign(codecBig) > 0

\* (n - back) * 2^bits <= n, for back <= n
ErrorWithin(n, back, bits) ==
    /\ BigLeq(back, n)
    /\ MagCmp(MagLsh(MagSub(n.mag, back.mag), bits), n.mag) <= 0

\* C11 as stated: for every positive n up to 2^256 - 1 the round trip loses
\* at most n / 2^23: (n - CompactToBig(BigToCompact(n))) * 2^23 <= n.
C11_AsStated == RoundTripped => ErrorWithin(codecBig, codecBack, 23)

\* C11 amended: for every positive n up to 2^256 - 1 the round trip loses at
\* most n / 2^15: (n - CompactToBig(BigToCompact(n))) * 2^15 <= n; the bound
\* is 2^-16 for the inputs that do not go through the sign-bit normalisation.
C11_RelativeError ==
    RoundTripped =>
        /\ ErrorWithin(codecBig, codecBack, 15)
        /\ codecBig.mag[1] < 128 => ErrorWithin(codecBig, codecBack, 16)

\* a 256-bit number that goes through the sign-bit normalisation and loses
\* more than n / 2^16
C11_Witness ==
    /\ RoundTripped
    /\ Len(codecBig.mag) = 32 /\ codecBig.mag[1] >= 128
    /\ ErrorWithin(codecBig, codecBack, 15)
    /\ ~ErrorWithin(codecBig, codecBack, 16)

-----------------------------------------------------------------------------
(* Properties of CalcWork                                                   *)

\* the product of two magnitudes
MagMul(a, b) ==
    LET RECURSIVE F(_, _)
        F(i, acc) ==
            IF i > Len(b) THEN acc
            ELSE LET sum == MagAdd(acc \o (IF acc = <<>> THEN <<>> ELSE <<0>>),
                                   MagMulSmall(a, b[i]))
                 IN  IF Len(sum) >= 0 THEN F(i + 1, sum) ELSE <<>>
    IN  F(1, <<>>)

\* CalcWork was called on both values
WorkDone == Len(workOut) = 2

\* the decoded target of the i-th value
WorkTarget(i) == CompactToBig(workIn[i])

\* work is 0 for a non-positive target and floor(2^256 / (target + 1)) else
IsWorkOf(work, target) ==
    IF BigSign(target) <= 0 THEN work = BigZero
    ELSE LET d == MagInc(target.mag)
         IN  /\ ~work.neg
             /\ MagCmp(MagMul(work.mag, d), oneLsh256.mag) <= 0
             /\ MagCmp(MagMul(MagInc(work.mag), d), oneLsh256.mag) > 0

\* C12 as stated: for every two compact values a and b with CompactToBig(a)
\* <= CompactToBig(b), CalcWork(a) >= CalcWork(b).
C12_AsStated ==
    (WorkDone /\ BigLeq(WorkTarget(1), WorkTarget(2))) =>
        BigLeq(workOut[2], workOut[1])

\* C12 amended: CalcWork(x) is 0 for a non-positive decoded target and
\* floor(2^256 / (target + 1)) otherwise, and for every two compact values a
\* and b with 0 < CompactToBig(a) <= CompactToBig(b), CalcWork(a) >=
\* CalcWork(b).
C12_Monotone ==
    WorkDone =>
        /\ IsWorkOf(workOut[1], WorkTarget(1))
        /\ IsWorkOf(workOut[2], WorkTarget(2))
        /\ (BigSign(WorkTarget(1)) > 0 /\ BigLeq(WorkTarget(1), WorkTarget(2)))
               => BigLeq(workOut[2], workOut[1])

\* two positive targets, the second larger, with less work that is not zero
C12_Witness ==
    /\ WorkDone
    /\ BigSign(WorkTarget(1)) > 0
    /\ BigCmp(WorkTarget(1), WorkTarget(2)) < 0
    /\ BigCmp(workOut[2], workOut[1]) < 0
    /\ BigSign(workOut[2]) > 0

====
